---- MODULE Spec2Model ----
(***************************************************************************)
(* The game session orchestrator of FictionaryBattle: the in-memory store  *)
(* (server/storage.ts, MemStorage) and the WebSocket message router        *)
(* (server/websocket.ts, setupWebSocketServer).                            *)
(*                                                                         *)
(* Every message handler is an async function.  It runs synchronously up   *)
(* to its next `await`, so one step of the model is the code between two   *)
(* awaits of one handler, and handlers that are in flight at the same time *)
(* interleave at those points.  A handler in flight is a record of `tasks` *)
(* holding its position (pc) and its local variables.                      *)
(***************************************************************************)
EXTENDS Integers, Sequences, FiniteSets, TLC

\* ---------------------------------------------------------------- bounds
MaxPlayers == 3        \* no join is received once playerIdCounter exceeds it
MaxDefinitions == 2    \* no submitDefinition is received once definitionIdCounter exceeds it
MaxVotes == 2          \* no submitVote is received once voteIdCounter exceeds it
MaxRound == 2          \* no newRound is received once currentRound reaches it
MaxScore == 3          \* no award command is received once a score exceeds it

GameIds == {1, 2}      \* the games created (POST /api/games) before any command
Conns == {1, 2, 3}     \* the WebSocket connections
Slots == {1, 2}        \* the handler slots
Sessions == {"s1", "s2", "s3"}

\* ------------------------------------------------------- program constants
PhaseWordEntry == 1
PhaseDefinition == 2
PhaseVoting == 3
PhaseResults == 4
CorrectVotePoints == 2
BonusPoints == 3
DefaultRound == 1

PLAYER == "player"
SPECTATOR == "spectator"

\* error replies of the router
ErrGameNotFound == "Game not found. Please check your game code."
ErrPlayerNotFound == "Player not found. Please rejoin the game."
ErrAdminNotFound == "Admin not found. Please rejoin the game."
ErrOnlyAdminRemove == "Only the game admin can remove players."
ErrInvalidPlayerId == "Invalid player ID."
ErrSpectatorWord == "Spectators cannot submit words."
ErrInvalidWord == "Please enter a valid word."
ErrSpectatorDefinition == "Spectators cannot submit definitions."
ErrAlreadySubmitted == "You have already submitted a definition for this round."
ErrSpectatorPhase == "Spectators cannot control game phases."
ErrSpectatorVote == "Spectators cannot vote."
ErrAlreadyVoted == "You have already voted for this round."
ErrOnlyAdminCancel == "Only admins can cancel the current round."
ErrOnlyAdminBonus == "Only admins can award bonus points."
ErrNoPlayerId == "No player ID provided."
ErrSpectatorBonus == "Cannot award points to spectators."
ErrGeneric == "An error occurred"

VARIABLES
  games,                \* MemStorage.games: set of Game records
  players,              \* MemStorage.players: set of Player records
  definitions,          \* MemStorage.definitions: set of Definition records
  votes,                \* MemStorage.votes: set of Vote records
  playerIdCounter,      \* MemStorage.playerIdCounter
  definitionIdCounter,  \* MemStorage.definitionIdCounter
  voteIdCounter,        \* MemStorage.voteIdCounter
  connections,          \* module map connections: sessionId -> connection
  gameRooms,            \* module map gameRooms: gameId -> session ids, in insertion order
  sessionId,            \* per connection: the closure variable sessionId ("" is null)
  gameId,               \* per connection: the closure variable gameId (0 is null)
  readyState,           \* per connection: "open" or "closed"
  tasks,                \* the handlers in flight, one per slot
  sent,                 \* the messages sent by the latest step
  last,                 \* the latest step: which handler, on which connection, at which point
  done                  \* history: the scoring passes and the submissions that have completed

store == <<games, players, definitions, votes, playerIdCounter, definitionIdCounter, voteIdCounter>>
registry == <<connections, gameRooms>>
closure == <<sessionId, gameId, readyState>>
vars == <<games, players, definitions, votes, playerIdCounter, definitionIdCounter,
          voteIdCounter, connections, gameRooms, sessionId, gameId, readyState,
          tasks, sent, last, done>>

\* ------------------------------------------------------------ absent values
NoGame == [id |-> 0]
NoPlayer == [id |-> 0]
NoDefinition == [id |-> 0]
NoConn == 0
NoGameState == [game |-> NoGame, players |-> {}, definitions |-> {}, votes |-> {}]

NoStore == [games |-> {}, players |-> {}, definitions |-> {}, votes |-> {}]

\* The payload of a message; a field the message does not carry is falsy
\* (0, "", FALSE, the empty word).
NoPayload ==
  [gameId |-> 0, sessionId |-> "", role |-> "", isSpectator |-> FALSE, round |-> 0,
   wordType |-> "undefined", word |-> <<>>, text |-> "", isCorrect |-> FALSE,
   definitionId |-> 0, playerId |-> 0]

\* A free handler slot, and the local variables of a handler at their defaults.
Idle ==
  [type |-> "idle", conn |-> 0, pc |-> "idle", p |-> NoPayload,
   player |-> NoPlayer,      \* const player / admin / adminPlayer
   game |-> NoGame,          \* the Game a storage method has read
   target |-> NoPlayer,      \* the Player a storage method or the router has read
   list |-> {},              \* existingDefinitions / existingVotes / definitions of endVoting
   vlist |-> {},             \* votes of endVoting
   todo |-> <<>>,            \* what a loop has still to visit
   inc |-> 0,                \* scoreIncrement
   gsGameId |-> 0,           \* getGameState's gameId argument
   gsRound |-> 0,            \* getGameState's round argument
   gs |-> NoGameState,       \* the GameState being assembled, then broadcast
   bconn |-> NoConn,         \* broadcastGameState: connection of the current recipient
   bplayer |-> NoPlayer,     \* broadcastGameState: thisPlayer
   before |-> NoStore,       \* history: the store when the message was received
   bsent |-> {}]             \* history: the messages broadcastGameState has sent so far

\* ------------------------------------------------------------------ helpers
Min(S) == CHOOSE x \in S : \A y \in S : x <= y

\* A finite set of records with distinct ids as the array a Map iteration
\* yields: in insertion order, which is the order of the ids.
RECURSIVE ById(_)
ById(S) ==
  IF S = {} THEN <<>>
  ELSE LET m == CHOOSE x \in S : \A y \in S : x.id <= y.id
       IN <<m>> \o ById(S \ {m})

\* Array.prototype.find over the values of a Map.
First(S) == IF S = {} THEN [id |-> 0] ELSE CHOOSE x \in S : \A y \in S : x.id <= y.id

SeqToSet(s) == {s[i] : i \in 1..Len(s)}

\* String.prototype.trim on a word given as a sequence of characters.
RECURSIVE TrimLeft(_)
TrimLeft(w) == IF w # <<>> /\ Head(w) = " " THEN TrimLeft(Tail(w)) ELSE w
RECURSIVE TrimRight(_)
TrimRight(w) ==
  IF w # <<>> /\ w[Len(w)] = " " THEN TrimRight(SubSeq(w, 1, Len(w) - 1)) ELSE w
\* A trim that trims nothing.
TrimNone(w) == w

Trim(w) == TrimRight(TrimLeft(w))

\* `x || 1` on a round number.
RoundOr1(r) == IF r = 0 THEN DefaultRound ELSE r

\* ---------------------------------------------------------------- storage
getGame(id) == First({g \in games : g.id = id})

getPlayer(id) == First({pl \in players : pl.id = id})

getPlayerBySessionId(sid) == First({pl \in players : pl.sessionId = sid})

\* A mutant of getPlayersByGameId: no player is found.
getPlayersByGameIdNone(gid) == {}

getPlayersByGameId(gid) == {pl \in players : pl.gameId = gid}

getDefinitionsByGameId(gid, round) ==
  {d \in definitions : d.gameId = gid /\ d.round = round}

getVotesByGameId(gid, round) ==
  {v \in votes : v.gameId = gid /\ v.round = round}

\* The Player createPlayer stores for the InsertPlayer it is given.
NewPlayer(gid, sid, role, isSpectator, isAdmin) ==
  [id |-> playerIdCounter, gameId |-> gid, sessionId |-> sid,
   role |-> IF role = "" THEN PLAYER ELSE role,
   isSpectator |-> isSpectator, isAdmin |-> isAdmin, score |-> 0]

NewPlayerRecord(id, gid, sid, role, isAdmin) ==
  [id |-> id, gameId |-> gid, sessionId |-> sid, role |-> role,
   isSpectator |-> role = SPECTATOR, isAdmin |-> isAdmin, score |-> 0]

\* The Definition createDefinition stores.
NewDefinition(gid, pid, text, isCorrect, round) ==
  [id |-> definitionIdCounter, gameId |-> gid, playerId |-> pid,
   round |-> round, text |-> text, isCorrect |-> isCorrect]

\* The Vote createVote stores.
NewVote(gid, pid, did, round) ==
  [id |-> voteIdCounter, gameId |-> gid, playerId |-> pid, definitionId |-> did,
   round |-> RoundOr1(round)]

\* this.games.set(id, updatedGame)
SetGame(g) == (games \ {x \in games : x.id = g.id}) \cup {g}

\* this.players.set(id, updatedPlayer)
SetPlayer(pl) == (players \ {x \in players : x.id = pl.id}) \cup {pl}

\* updateGamePhase's updatedGame, from the Game it has read.
WithPhase(g, phase) == [g EXCEPT !.phase = phase]

\* updateGameWord's updatedGame.
WithWord(g, word) == [g EXCEPT !.currentWord = word]

\* A startNewRound that stays in the round.
NewRoundGameSameRound(g) == [g EXCEPT !.phase = PhaseWordEntry, !.currentWord = <<>>]

\* startNewRound's updatedGame.
NewRoundGame(g) ==
  [g EXCEPT !.phase = PhaseWordEntry, !.currentWord = <<>>,
            !.currentRound = RoundOr1(g.currentRound) + 1]

\* cancelRound's updatedGame.
CancelledGame(g) == [g EXCEPT !.phase = PhaseWordEntry, !.currentWord = <<>>]

\* updatePlayerScore's updatedPlayer.
\* A mutant of WithScore: the increment is added twice.
WithScoreTwice(pl, scoreIncrement) ==
  [pl EXCEPT !.score = pl.score + scoreIncrement + scoreIncrement]

WithScore(pl, scoreIncrement) == [pl EXCEPT !.score = pl.score + scoreIncrement]

\* A clearDefinitionsAndVotesByRound that forgets the round.
DefinitionsAfterClearGame(gid, round) == {d \in definitions : d.gameId # gid}

\* What clearDefinitionsAndVotesByRound leaves of the definitions and of the votes.
DefinitionsAfterClear(gid, round) ==
  {d \in definitions : ~(d.gameId = gid /\ d.round = round)}
VotesAfterClear(gid, round) ==
  {v \in votes : ~(v.gameId = gid /\ v.round = round)}

\* A removePlayer that forgets the definitions of the player.
DefinitionsAfterRemoveNone(id) == definitions

\* What removePlayer leaves of the players, the definitions and the votes.
PlayersAfterRemove(id) == {pl \in players : pl.id # id}
DefinitionsAfterRemove(id) == {d \in definitions : d.playerId # id}
VotesAfterRemove(id) == {v \in votes : v.playerId # id}

\* ----------------------------------------------------------------- router
IsSpectator(pl) == pl.role = SPECTATOR \/ pl.isSpectator

\* An award guard that forgets the spectators.
AwardableSpectator(player) == player # NoPlayer

\* An award guard that forgets that the player may be missing.
AwardableMissing(player) == player = NoPlayer \/ ~player.isSpectator

\* `player && !player.isSpectator`: who the scoring and the bonus award points to.
Awardable(player) == player # NoPlayer /\ ~player.isSpectator

\* An admin check that lets everybody through.
IsAdminAnyone(player) == TRUE

\* `!player.isAdmin`, negated: who may cancel rounds, award bonuses, remove players.
IsAdmin(player) == player.isAdmin

InFlight == {t \in Slots : tasks[t].type # "idle"}

ErrorMsg(c, text, cause) ==
  [to |-> c, type |-> "error", message |-> text, cause |-> cause,
   payload |-> NoGameState, currentPlayer |-> NoPlayer]

GameStateMsg(c, gs, currentPlayer, cause) ==
  [to |-> c, type |-> "gameState", message |-> "", cause |-> cause,
   payload |-> gs, currentPlayer |-> currentPlayer]

\* History, for the step that takes the handler in slot t to tasks'[t]: an
\* endVoting that calls getGameState has finished its scoring pass; a
\* submitDefinition that returns has completed; the store write of a newRound
\* or a cancelRound ends the round the passes of its game were counted for.
DoneKey(t, op, pid) ==
  [op |-> op, gameId |-> gameId[tasks[t].conn], playerId |-> pid,
   round |-> RoundOr1(tasks[t].p.round)]

DoneAfter(t) ==
  CASE tasks[t].type = "endVoting" /\ tasks'[t].pc = "gs_game" ->
         done \cup {DoneKey(t, "endVoting", 0)}
    [] tasks[t].type = "submitDefinition" /\ tasks'[t].type = "idle" ->
         done \cup {DoneKey(t, "submitDefinition", tasks[t].player.id)}
    [] tasks[t].type \in {"newRound", "cancelRound"}
         /\ tasks'[t].pc \in {"nr_written", "cr_cleared"} ->
         {k \in done : ~(k.op = "endVoting" /\ k.gameId = gameId[tasks[t].conn])}
    [] OTHER -> done

\* The step of the handler in slot t that was at `at`; stated after tasks'.
Step(t, at) ==
  /\ last' = [type |-> tasks[t].type, conn |-> tasks[t].conn, at |-> at]
  /\ done' = DoneAfter(t)

\* The handler in slot t goes on as record r.
Goto(t, r) == tasks' = [tasks EXCEPT ![t] = r]

\* The handler in slot t returns.
Return(t) == tasks' = [tasks EXCEPT ![t] = Idle]

\* sendMessage(ws, {type: "error", ...}); return
Reject(t, text, at) ==
  /\ sent' = {ErrorMsg(tasks[t].conn, text, tasks[t].type)}
  /\ Return(t)
  /\ Step(t, at)
  /\ UNCHANGED <<store, registry, closure>>

\* gameRooms.get(gameId)?.add(sessionId), after creating the room if it is missing
RoomAdd(gid, sid) ==
  [k \in DOMAIN gameRooms \cup {gid} |->
     IF k # gid THEN gameRooms[k]
     ELSE IF gid \notin DOMAIN gameRooms THEN <<sid>>
     ELSE IF sid \in SeqToSet(gameRooms[gid]) THEN gameRooms[gid]
     ELSE Append(gameRooms[gid], sid)]

FreeSlot == Min(Slots \ InFlight)

\* A message arrives on connection c while fewer than cap handlers are in flight.
CanReceive(cap, c) == readyState[c] = "open" /\ Cardinality(InFlight) < cap

NewTask(type, c, p, pc) == [Idle EXCEPT !.type = type, !.conn = c, !.p = p, !.pc = pc]

\* --------------------------------------------- getGameState and broadcast
\* The handler calls storage.getGameState(gid, round): getGameState runs up to
\* its first await, having read the Game.
CallGetGameState(t, r, gid, round) ==
  Goto(t, [r EXCEPT !.pc = "gs_game", !.gsGameId = gid, !.gsRound = round,
                    !.game = getGame(gid)])

\* getGameState after `await this.getGame(gameId)`: throws for a missing game,
\* else reads the players.
GetGameStatePlayers(t) ==
  /\ tasks[t].pc = "gs_game"
  /\ IF tasks[t].game = NoGame
     THEN Reject(t, ErrGeneric, "gs_game")
     ELSE /\ Goto(t, [tasks[t] EXCEPT
                 !.pc = "gs_players",
                 !.gsRound = IF tasks[t].gsRound # 0 THEN tasks[t].gsRound
                             ELSE RoundOr1(tasks[t].game.currentRound),
                 !.gs = [NoGameState EXCEPT
                           !.game = tasks[t].game,
                           !.players = getPlayersByGameId(tasks[t].gsGameId)],
                 !.game = NoGame, !.before = NoStore])
          /\ sent' = {}
          /\ Step(t, "gs_game")
          /\ UNCHANGED <<store, registry, closure>>

\* getGameState after `await this.getPlayersByGameId(gameId)`: reads the definitions.
GetGameStateDefinitions(t) ==
  /\ tasks[t].pc = "gs_players"
  /\ Goto(t, [tasks[t] EXCEPT
        !.pc = "gs_defs",
        !.gs = [tasks[t].gs EXCEPT
                  !.definitions = getDefinitionsByGameId(tasks[t].gsGameId, tasks[t].gsRound)]])
  /\ sent' = {}
  /\ Step(t, "gs_players")
  /\ UNCHANGED <<store, registry, closure>>

\* getGameState after `await this.getDefinitionsByGameId(...)`: reads the votes.
GetGameStateVotes(t) ==
  /\ tasks[t].pc = "gs_defs"
  /\ Goto(t, [tasks[t] EXCEPT
        !.pc = "gs_votes",
        !.gs = [tasks[t].gs EXCEPT
                  !.votes = getVotesByGameId(tasks[t].gsGameId, tasks[t].gsRound)]])
  /\ sent' = {}
  /\ Step(t, "gs_defs")
  /\ UNCHANGED <<store, registry, closure>>

\* broadcastGameState's loop up to its next await: the session ids of todo
\* whose connection is missing or not open are skipped; for the first other
\* one, thisPlayer is read.  0 when the loop ends.
RECURSIVE NextRecipient(_, _)
NextRecipient(todo, i) ==
  IF i > Len(todo) THEN 0
  ELSE IF connections[todo[i]] # NoConn /\ readyState[connections[todo[i]]] = "open"
       THEN i
       ELSE NextRecipient(todo, i + 1)

BroadcastLoop(t, r, todo) ==
  LET i == NextRecipient(todo, 1)
  IN IF i = 0
     THEN Return(t)
     ELSE Goto(t, [r EXCEPT !.pc = "bc_player",
                            !.todo = SubSeq(todo, i + 1, Len(todo)),
                            !.bconn = connections[todo[i]],
                            !.bplayer = getPlayerBySessionId(todo[i])])

\* The handler, having awaited getGameState, calls broadcastGameState(gid, gs).
CallBroadcast(t, r, gid) ==
  IF gid \in DOMAIN gameRooms
  THEN BroadcastLoop(t, r, gameRooms[gid])
  ELSE Return(t)

\* ws.send: a message for a connection that is no longer open is lost.
Delivered(msgs) == {m \in msgs : readyState[m.to] = "open"}

\* The handler after `await storage.getGameState(...)`: join first sends the
\* state to its own connection; every command then starts the broadcast.
Broadcast(t) ==
  /\ tasks[t].pc = "gs_votes"
  /\ LET r == tasks[t]
         c == r.conn
     IN /\ sent' = IF r.type = "join"
                   THEN Delivered({GameStateMsg(c, r.gs, r.player, "join")})
                   ELSE {}
        /\ CallBroadcast(t, r, gameId[c])
  /\ Step(t, "gs_votes")
  /\ UNCHANGED <<store, registry, closure>>

\* broadcastGameState after `await storage.getPlayerBySessionId(sessionId)`:
\* sends this recipient its message and goes on with the loop.
BroadcastSend(t) ==
  /\ tasks[t].pc = "bc_player"
  /\ LET r == tasks[t]
     IN /\ sent' = IF r.bplayer # NoPlayer
                   THEN Delivered({GameStateMsg(r.bconn, r.gs, r.bplayer, r.type)})
                   ELSE {}
        /\ BroadcastLoop(t, [r EXCEPT !.bconn = NoConn, !.bplayer = NoPlayer,
                                      !.bsent = r.bsent \cup sent'], r.todo)
  /\ Step(t, "bc_player")
  /\ UNCHANGED <<store, registry, closure>>

\* ------------------------------------------------------------------- join
\* case "join", up to `await storage.getGame(gameId)`.
RecvJoin(cap, c, p) ==
  /\ CanReceive(cap, c)
  /\ playerIdCounter <= MaxPlayers
  /\ sessionId' = [sessionId EXCEPT ![c] = p.sessionId]
  /\ gameId' = [gameId EXCEPT ![c] = p.gameId]
  /\ connections' = IF p.sessionId # ""
                    THEN [connections EXCEPT ![p.sessionId] = c]
                    ELSE connections
  /\ IF p.gameId # 0 /\ p.sessionId # ""
     THEN /\ gameRooms' = RoomAdd(p.gameId, p.sessionId)
          /\ tasks' = [tasks EXCEPT ![FreeSlot] =
                         [NewTask("join", c, p, "join_game") EXCEPT !.game = getGame(p.gameId)]]
     ELSE UNCHANGED <<gameRooms, tasks>>
  /\ sent' = {}
  /\ last' = [type |-> "join", conn |-> c, at |-> "recv"]
  /\ done' = done
  /\ UNCHANGED <<store, readyState>>

\* after `await storage.getGame(gameId)`
JoinGame(t) ==
  /\ tasks[t].type = "join" /\ tasks[t].pc = "join_game"
  /\ IF tasks[t].game = NoGame
     THEN Reject(t, ErrGameNotFound, "join_game")
     ELSE /\ Goto(t, [tasks[t] EXCEPT
                 !.pc = "join_player", !.game = NoGame,
                 !.player = getPlayerBySessionId(sessionId[tasks[t].conn])])
          /\ sent' = {}
          /\ Step(t, "join_game")
          /\ UNCHANGED <<store, registry, closure>>

\* after `await storage.getPlayerBySessionId(sessionId)`
JoinPlayer(t) ==
  /\ tasks[t].type = "join" /\ tasks[t].pc = "join_player"
  /\ LET r == tasks[t]
         c == r.conn
     IN IF r.player = NoPlayer
        THEN Goto(t, [r EXCEPT !.pc = "join_existing",
                               !.list = getPlayersByGameId(gameId[c])])
        ELSE CallGetGameState(t, r, gameId[c], RoundOr1(r.p.round))
  /\ sent' = {}
  /\ Step(t, "join_player")
  /\ UNCHANGED <<store, registry, closure>>

\* The role of the player a join creates: the payload's role, else from isSpectator.
JoinRole(p) == IF p.role # "" THEN p.role ELSE IF p.isSpectator THEN SPECTATOR ELSE PLAYER

\* after `await storage.getPlayersByGameId(gameId)`: createPlayer
JoinCreate(t) ==
  /\ tasks[t].type = "join" /\ tasks[t].pc = "join_existing"
  /\ LET r == tasks[t]
         c == r.conn
         role == JoinRole(r.p)
         new == NewPlayer(gameId[c], sessionId[c], role, role = SPECTATOR, r.list = {})
     IN /\ players' = players \cup {new}
        /\ playerIdCounter' = playerIdCounter + 1
        /\ Goto(t, [r EXCEPT !.pc = "join_created", !.player = new, !.list = {}])
  /\ sent' = {}
  /\ Step(t, "join_existing")
  /\ UNCHANGED <<games, definitions, votes, definitionIdCounter, voteIdCounter,
                 registry, closure>>

\* after `await storage.createPlayer(...)`: getGameState
JoinState(t) ==
  /\ tasks[t].type = "join" /\ tasks[t].pc = "join_created"
  /\ CallGetGameState(t, tasks[t], gameId[tasks[t].conn], RoundOr1(tasks[t].p.round))
  /\ sent' = {}
  /\ Step(t, "join_created")
  /\ UNCHANGED <<store, registry, closure>>


\* -------------------------------------------------- the commands after join
\* A step of handler t that only reads: nothing is sent, nothing stored.
Quiet(t, at) ==
  /\ sent' = {}
  /\ Step(t, at)
  /\ UNCHANGED <<store, registry, closure>>

\* A step of handler t that writes to the store and sends nothing.
Silent(t, at) ==
  /\ sent' = {}
  /\ Step(t, at)
  /\ UNCHANGED <<registry, closure>>

At(t, type, pc) == tasks[t].type = type /\ tasks[t].pc = pc

\* What bounds the run: a command that would create a record, start a round
\* or award points is received only below the bound of that counter.
WithinBounds(type) ==
  /\ type = "submitDefinition" => definitionIdCounter <= MaxDefinitions
  /\ type = "submitVote" => voteIdCounter <= MaxVotes
  /\ type = "newRound" => \A g \in games : g.currentRound < MaxRound
  /\ type \in {"endVoting", "awardBonus"} => \A pl \in players : pl.score < MaxScore

\* Every case but join, up to `await storage.getPlayerBySessionId(sessionId)`;
\* without a gameId and a sessionId the case does nothing.
RecvCommand(cap, c, type, p) ==
  /\ CanReceive(cap, c)
  /\ WithinBounds(type)
  /\ IF gameId[c] # 0 /\ sessionId[c] # ""
     THEN tasks' = [tasks EXCEPT ![FreeSlot] =
                      [NewTask(type, c, p, "player") EXCEPT
                         !.player = getPlayerBySessionId(sessionId[c]),
                         !.before = [games |-> games, players |-> players,
                                      definitions |-> definitions, votes |-> votes]]]
     ELSE UNCHANGED tasks
  /\ sent' = {}
  /\ last' = [type |-> type, conn |-> c, at |-> "recv"]
  /\ done' = done
  /\ UNCHANGED <<store, registry, closure>>

\* The phase each command hands to updateGamePhase.
PhaseOf(type) ==
  CASE type = "submitWord" -> PhaseDefinition
    [] type = "endSubmissions" -> PhaseVoting
    [] type = "endVoting" -> PhaseResults

\* updateGamePhase after `await this.getGame(id)`, for the three commands that call it.
UpdateGamePhase(t) ==
  /\ tasks[t].pc = "phase_read"
  /\ IF tasks[t].game = NoGame
     THEN Reject(t, ErrGeneric, "phase_read")
     ELSE /\ games' = SetGame(WithPhase(tasks[t].game, PhaseOf(tasks[t].type)))
          /\ Goto(t, [tasks[t] EXCEPT !.pc = "phase_written", !.game = NoGame])
          /\ Silent(t, "phase_read")
          /\ UNCHANGED <<players, definitions, votes, playerIdCounter,
                         definitionIdCounter, voteIdCounter>>

\* ------------------------------------------------------------- submitWord
ValidWord(p) == p.wordType = "string" /\ p.word # <<>> /\ Trim(p.word) # <<>>

\* case "submitWord" after the player lookup, up to updateGameWord's await
SubmitWordPlayer(t) ==
  /\ At(t, "submitWord", "player")
  /\ LET r == tasks[t]
     IN IF r.player = NoPlayer THEN Reject(t, ErrPlayerNotFound, "player")
        ELSE IF IsSpectator(r.player) THEN Reject(t, ErrSpectatorWord, "player")
        ELSE IF ~ValidWord(r.p) THEN Reject(t, ErrInvalidWord, "player")
        ELSE /\ Goto(t, [r EXCEPT !.pc = "word_read", !.game = getGame(gameId[r.conn])])
             /\ Quiet(t, "player")

\* updateGameWord after `await this.getGame(id)`
UpdateGameWord(t) ==
  /\ At(t, "submitWord", "word_read")
  /\ IF tasks[t].game = NoGame
     THEN Reject(t, ErrGeneric, "word_read")
     ELSE /\ games' = SetGame(WithWord(tasks[t].game, Trim(tasks[t].p.word)))
          /\ Goto(t, [tasks[t] EXCEPT !.pc = "word_written", !.game = NoGame])
          /\ Silent(t, "word_read")
          /\ UNCHANGED <<players, definitions, votes, playerIdCounter,
                         definitionIdCounter, voteIdCounter>>

\* after `await storage.updateGameWord(...)`: updateGamePhase(gameId, 2) up to its await
SubmitWordPhase(t) ==
  /\ At(t, "submitWord", "word_written")
  /\ Goto(t, [tasks[t] EXCEPT !.pc = "phase_read", !.game = getGame(gameId[tasks[t].conn])])
  /\ Quiet(t, "word_written")

\* after `await storage.updateGamePhase(gameId, 2)`: getGameState
SubmitWordState(t) ==
  /\ At(t, "submitWord", "phase_written")
  /\ CallGetGameState(t, tasks[t], gameId[tasks[t].conn], RoundOr1(tasks[t].p.round))
  /\ Quiet(t, "phase_written")

\* ------------------------------------------------------- submitDefinition
\* case "submitDefinition" after the player lookup: reads existingDefinitions
SubmitDefinitionPlayer(t) ==
  /\ At(t, "submitDefinition", "player")
  /\ LET r == tasks[t]
     IN IF r.player = NoPlayer THEN Reject(t, ErrPlayerNotFound, "player")
        ELSE IF IsSpectator(r.player) THEN Reject(t, ErrSpectatorDefinition, "player")
        ELSE /\ Goto(t, [r EXCEPT
                    !.pc = "sd_defs",
                    !.list = getDefinitionsByGameId(gameId[r.conn], RoundOr1(r.p.round))])
             /\ Quiet(t, "player")

\* A duplicate check that never finds a definition.
playerHasSubmittedNever(existingDefinitions, player) == FALSE

playerHasSubmitted(existingDefinitions, player) ==
  \E def \in existingDefinitions : def.playerId = player.id

\* after `await storage.getDefinitionsByGameId(...)`: the duplicate check, createDefinition
SubmitDefinitionCreate(t) ==
  /\ At(t, "submitDefinition", "sd_defs")
  /\ LET r == tasks[t]
     IN IF playerHasSubmitted(r.list, r.player)
        THEN Reject(t, ErrAlreadySubmitted, "sd_defs")
        ELSE /\ definitions' = definitions \cup
                  {NewDefinition(gameId[r.conn], r.player.id, r.p.text, r.p.isCorrect,
                                 RoundOr1(r.p.round))}
             /\ definitionIdCounter' = definitionIdCounter + 1
             /\ Goto(t, [r EXCEPT !.pc = "sd_created", !.list = {}])
             /\ Silent(t, "sd_defs")
             /\ UNCHANGED <<games, players, votes, playerIdCounter, voteIdCounter>>

\* after `await storage.createDefinition(...)`: getGameState
SubmitDefinitionState(t) ==
  /\ At(t, "submitDefinition", "sd_created")
  /\ CallGetGameState(t, tasks[t], gameId[tasks[t].conn], RoundOr1(tasks[t].p.round))
  /\ Quiet(t, "sd_created")

\* --------------------------------------------------------- endSubmissions
\* case "endSubmissions" after the player lookup, up to updateGamePhase's await
EndSubmissionsPlayer(t) ==
  /\ At(t, "endSubmissions", "player")
  /\ LET r == tasks[t]
     IN IF r.player = NoPlayer THEN Reject(t, ErrPlayerNotFound, "player")
        ELSE IF IsSpectator(r.player) THEN Reject(t, ErrSpectatorPhase, "player")
        ELSE /\ Goto(t, [r EXCEPT !.pc = "phase_read", !.game = getGame(gameId[r.conn])])
             /\ Quiet(t, "player")

\* after `await storage.updateGamePhase(gameId, 3)`: getGameState
EndSubmissionsState(t) ==
  /\ At(t, "endSubmissions", "phase_written")
  /\ CallGetGameState(t, tasks[t], gameId[tasks[t].conn], RoundOr1(tasks[t].p.round))
  /\ Quiet(t, "phase_written")

\* ------------------------------------------------------------- submitVote
\* case "submitVote" after the player lookup: reads existingVotes
SubmitVotePlayer(t) ==
  /\ At(t, "submitVote", "player")
  /\ LET r == tasks[t]
     IN IF r.player = NoPlayer THEN Reject(t, ErrPlayerNotFound, "player")
        ELSE IF IsSpectator(r.player) THEN Reject(t, ErrSpectatorVote, "player")
        ELSE /\ Goto(t, [r EXCEPT
                    !.pc = "sv_votes",
                    !.list = getVotesByGameId(gameId[r.conn], RoundOr1(r.p.round))])
             /\ Quiet(t, "player")

playerHasVoted(existingVotes, player) ==
  \E vote \in existingVotes : vote.playerId = player.id

\* after `await storage.getVotesByGameId(...)`: the duplicate check, createVote
SubmitVoteCreate(t) ==
  /\ At(t, "submitVote", "sv_votes")
  /\ LET r == tasks[t]
     IN IF playerHasVoted(r.list, r.player)
        THEN Reject(t, ErrAlreadyVoted, "sv_votes")
        ELSE /\ votes' = votes \cup
                  {NewVote(gameId[r.conn], r.player.id, r.p.definitionId, RoundOr1(r.p.round))}
             /\ voteIdCounter' = voteIdCounter + 1
             /\ Goto(t, [r EXCEPT !.pc = "sv_created", !.list = {}])
             /\ Silent(t, "sv_votes")
             /\ UNCHANGED <<games, players, definitions, playerIdCounter,
                            definitionIdCounter>>

\* after `await storage.createVote(...)`: getGameState
SubmitVoteState(t) ==
  /\ At(t, "submitVote", "sv_created")
  /\ CallGetGameState(t, tasks[t], gameId[tasks[t].conn], RoundOr1(tasks[t].p.round))
  /\ Quiet(t, "sv_created")


\* -------------------------------------------------------------- endVoting
\* updatePlayerScore after `await this.getPlayer(id)`: throws for a missing
\* player, else stores the player it has read with the score raised.
UpdatePlayerScore(t, at, then) ==
  IF tasks[t].target = NoPlayer
  THEN Reject(t, ErrGeneric, at)
  ELSE /\ players' = SetPlayer(WithScore(tasks[t].target, tasks[t].inc))
       /\ Goto(t, [tasks[t] EXCEPT !.pc = then, !.target = NoPlayer, !.inc = 0])
       /\ Silent(t, at)
       /\ UNCHANGED <<games, definitions, votes, playerIdCounter,
                      definitionIdCounter, voteIdCounter>>

\* case "endVoting" after the player lookup, up to updateGamePhase's await
EndVotingPlayer(t) ==
  /\ At(t, "endVoting", "player")
  /\ LET r == tasks[t]
     IN IF r.player = NoPlayer THEN Reject(t, ErrPlayerNotFound, "player")
        ELSE IF IsSpectator(r.player) THEN Reject(t, ErrSpectatorPhase, "player")
        ELSE /\ Goto(t, [r EXCEPT !.pc = "phase_read", !.game = getGame(gameId[r.conn])])
             /\ Quiet(t, "player")

\* after `await storage.updateGamePhase(gameId, 4)`: reads the definitions
EndVotingDefinitions(t) ==
  /\ At(t, "endVoting", "phase_written")
  /\ Goto(t, [tasks[t] EXCEPT
        !.pc = "ev_defs",
        !.list = getDefinitionsByGameId(gameId[tasks[t].conn], RoundOr1(tasks[t].p.round))])
  /\ Quiet(t, "phase_written")

voteCount(vs, definition) == Cardinality({vote \in vs : vote.definitionId = definition.id})

\* The second loop of the scoring: over the votes for the correct definition,
\* up to the next `await storage.getPlayer(vote.playerId)`; after the last
\* vote, getGameState.
VoterLoop(t, r, todo) ==
  IF todo = <<>>
  THEN CallGetGameState(t, [r EXCEPT !.list = {}, !.vlist = {}, !.todo = <<>>],
                        gameId[r.conn], RoundOr1(r.p.round))
  ELSE Goto(t, [r EXCEPT !.pc = "ev_voter", !.todo = Tail(todo),
                         !.target = getPlayer(Head(todo).playerId)])

correctVotes(r) ==
  LET correctDefinition == First({d \in r.list : d.isCorrect})
  IN IF correctDefinition = NoDefinition THEN <<>>
     ELSE ById({vote \in r.vlist : vote.definitionId = correctDefinition.id})

\* The first loop of the scoring: over the definitions, up to the next
\* `await storage.getPlayer(definition.playerId)`; after the last definition,
\* the second loop.
RECURSIVE NextScored(_, _, _)
NextScored(todo, vs, i) ==
  IF i > Len(todo) THEN 0
  ELSE IF ~todo[i].isCorrect /\ voteCount(vs, todo[i]) > 0 THEN i
  ELSE NextScored(todo, vs, i + 1)

AuthorLoop(t, r, todo) ==
  LET i == NextScored(todo, r.vlist, 1)
  IN IF i = 0
     THEN VoterLoop(t, r, correctVotes(r))
     ELSE Goto(t, [r EXCEPT !.pc = "ev_author",
                            !.todo = SubSeq(todo, i, Len(todo)),
                            !.target = getPlayer(todo[i].playerId)])

\* after `await storage.getVotesByGameId(gameId, round)`: the scoring starts
EndVotingVotes(t) ==
  /\ At(t, "endVoting", "ev_defs")
  /\ LET vs == getVotesByGameId(gameId[tasks[t].conn], RoundOr1(tasks[t].p.round))
         r == [tasks[t] EXCEPT !.vlist = vs]
     IN AuthorLoop(t, r, ById(r.list))
  /\ Quiet(t, "ev_defs")

\* after `await storage.getPlayer(definition.playerId)`: the author's award,
\* up to updatePlayerScore's await, or the next definition
EndVotingAuthor(t) ==
  /\ At(t, "endVoting", "ev_author")
  /\ LET r == tasks[t]
         definition == Head(r.todo)
     IN IF Awardable(r.target)
        THEN Goto(t, [r EXCEPT !.pc = "ev_author_score",
                               !.target = getPlayer(definition.playerId),
                               !.inc = voteCount(r.vlist, definition)])
        ELSE AuthorLoop(t, [r EXCEPT !.target = NoPlayer], Tail(r.todo))
  /\ Quiet(t, "ev_author")

\* updatePlayerScore(definition.playerId, voteCount) after its await
EndVotingAuthorScore(t) ==
  /\ At(t, "endVoting", "ev_author_score")
  /\ UpdatePlayerScore(t, "ev_author_score", "ev_author_scored")

\* after `await storage.updatePlayerScore(definition.playerId, voteCount)`
EndVotingAuthorNext(t) ==
  /\ At(t, "endVoting", "ev_author_scored")
  /\ AuthorLoop(t, tasks[t], Tail(tasks[t].todo))
  /\ Quiet(t, "ev_author_scored")

\* after `await storage.getPlayer(vote.playerId)`: the voter's award, up to
\* updatePlayerScore's await, or the next vote
EndVotingVoter(t) ==
  /\ At(t, "endVoting", "ev_voter")
  /\ LET r == tasks[t]
     IN IF Awardable(r.target)
        THEN Goto(t, [r EXCEPT !.pc = "ev_voter_score",
                               !.target = getPlayer(r.target.id),
                               !.inc = CorrectVotePoints])
        ELSE VoterLoop(t, [r EXCEPT !.target = NoPlayer], r.todo)
  /\ Quiet(t, "ev_voter")

\* updatePlayerScore(vote.playerId, 2) after its await
EndVotingVoterScore(t) ==
  /\ At(t, "endVoting", "ev_voter_score")
  /\ UpdatePlayerScore(t, "ev_voter_score", "ev_voter_scored")

\* after `await storage.updatePlayerScore(vote.playerId, 2)`
EndVotingVoterNext(t) ==
  /\ At(t, "endVoting", "ev_voter_scored")
  /\ VoterLoop(t, tasks[t], tasks[t].todo)
  /\ Quiet(t, "ev_voter_scored")

\* --------------------------------------------------------------- newRound
\* case "newRound" after the player lookup, up to startNewRound's await
NewRoundPlayer(t) ==
  /\ At(t, "newRound", "player")
  /\ LET r == tasks[t]
     IN IF r.player = NoPlayer THEN Reject(t, ErrPlayerNotFound, "player")
        ELSE IF IsSpectator(r.player) THEN Reject(t, ErrSpectatorPhase, "player")
        ELSE /\ Goto(t, [r EXCEPT !.pc = "nr_read", !.game = getGame(gameId[r.conn])])
             /\ Quiet(t, "player")

\* startNewRound after `await this.getGame(gameId)`
StartNewRound(t) ==
  /\ At(t, "newRound", "nr_read")
  /\ IF tasks[t].game = NoGame
     THEN Reject(t, ErrGeneric, "nr_read")
     ELSE /\ games' = SetGame(NewRoundGame(tasks[t].game))
          /\ Goto(t, [tasks[t] EXCEPT !.pc = "nr_written", !.game = NewRoundGame(tasks[t].game)])
          /\ Silent(t, "nr_read")
          /\ UNCHANGED <<players, definitions, votes, playerIdCounter,
                         definitionIdCounter, voteIdCounter>>

\* after `await storage.startNewRound(gameId)`: getGameState for updatedGame.currentRound
NewRoundState(t) ==
  /\ At(t, "newRound", "nr_written")
  /\ CallGetGameState(t, tasks[t], gameId[tasks[t].conn], tasks[t].game.currentRound)
  /\ Quiet(t, "nr_written")

\* ------------------------------------------------------------ cancelRound
\* case "cancelRound" after the player lookup, up to storage.cancelRound's await
CancelRoundPlayer(t) ==
  /\ At(t, "cancelRound", "player")
  /\ LET r == tasks[t]
     IN IF r.player = NoPlayer THEN Reject(t, ErrPlayerNotFound, "player")
        ELSE IF ~IsAdmin(r.player) THEN Reject(t, ErrOnlyAdminCancel, "player")
        ELSE /\ Goto(t, [r EXCEPT !.pc = "cr_read", !.game = getGame(gameId[r.conn])])
             /\ Quiet(t, "player")

\* cancelRound after `await this.getGame(gameId)`: clearDefinitionsAndVotesByRound
CancelRoundClear(t) ==
  /\ At(t, "cancelRound", "cr_read")
  /\ LET game == tasks[t].game
     IN IF game = NoGame
        THEN Reject(t, ErrGeneric, "cr_read")
        ELSE /\ definitions' = DefinitionsAfterClear(game.id, RoundOr1(game.currentRound))
             /\ votes' = VotesAfterClear(game.id, RoundOr1(game.currentRound))
             /\ Goto(t, [tasks[t] EXCEPT !.pc = "cr_cleared"])
             /\ Silent(t, "cr_read")
             /\ UNCHANGED <<games, players, playerIdCounter, definitionIdCounter,
                            voteIdCounter>>

\* cancelRound after `await this.clearDefinitionsAndVotesByRound(...)`
CancelRoundWrite(t) ==
  /\ At(t, "cancelRound", "cr_cleared")
  /\ games' = SetGame(CancelledGame(tasks[t].game))
  /\ Goto(t, [tasks[t] EXCEPT !.pc = "cr_written", !.game = CancelledGame(tasks[t].game)])
  /\ Silent(t, "cr_cleared")
  /\ UNCHANGED <<players, definitions, votes, playerIdCounter, definitionIdCounter,
                 voteIdCounter>>

\* after `await storage.cancelRound(gameId)`: getGameState for updatedGame.currentRound
CancelRoundState(t) ==
  /\ At(t, "cancelRound", "cr_written")
  /\ CallGetGameState(t, tasks[t], gameId[tasks[t].conn],
                      RoundOr1(tasks[t].game.currentRound))
  /\ Quiet(t, "cr_written")

\* ------------------------------------------------------------- awardBonus
\* case "awardBonus" after the player lookup: reads playerToAward
AwardBonusPlayer(t) ==
  /\ At(t, "awardBonus", "player")
  /\ LET r == tasks[t]
     IN IF r.player = NoPlayer THEN Reject(t, ErrPlayerNotFound, "player")
        ELSE IF ~IsAdmin(r.player) THEN Reject(t, ErrOnlyAdminBonus, "player")
        ELSE IF r.p.playerId = 0 THEN Reject(t, ErrNoPlayerId, "player")
        ELSE /\ Goto(t, [r EXCEPT !.pc = "ab_target", !.target = getPlayer(r.p.playerId)])
             /\ Quiet(t, "player")

\* after `await storage.getPlayer(playerId)`: the award up to updatePlayerScore's
\* await, the spectator's rejection, or (no such player) getGame
AwardBonusTarget(t) ==
  /\ At(t, "awardBonus", "ab_target")
  /\ LET r == tasks[t]
     IN IF Awardable(r.target)
        THEN /\ Goto(t, [r EXCEPT !.pc = "ab_score", !.inc = BonusPoints,
                                  !.target = getPlayer(r.p.playerId)])
             /\ Quiet(t, "ab_target")
        ELSE IF r.target # NoPlayer
        THEN Reject(t, ErrSpectatorBonus, "ab_target")
        ELSE /\ Goto(t, [r EXCEPT !.pc = "ab_game", !.game = getGame(gameId[r.conn])])
             /\ Quiet(t, "ab_target")

\* updatePlayerScore(playerId, 3) after its await
AwardBonusScore(t) ==
  /\ At(t, "awardBonus", "ab_score")
  /\ UpdatePlayerScore(t, "ab_score", "ab_scored")

\* after `await storage.updatePlayerScore(playerId, 3)`: getGame
AwardBonusGame(t) ==
  /\ At(t, "awardBonus", "ab_scored")
  /\ Goto(t, [tasks[t] EXCEPT !.pc = "ab_game", !.game = getGame(gameId[tasks[t].conn])])
  /\ Quiet(t, "ab_scored")

\* after `await storage.getGame(gameId)`: getGameState for game.currentRound
AwardBonusState(t) ==
  /\ At(t, "awardBonus", "ab_game")
  /\ IF tasks[t].game = NoGame
     THEN Reject(t, ErrGeneric, "ab_game")
     ELSE /\ CallGetGameState(t, tasks[t], gameId[tasks[t].conn],
                              RoundOr1(tasks[t].game.currentRound))
          /\ Quiet(t, "ab_game")

\* ----------------------------------------------------------- removePlayer
\* case "removePlayer" (the first of the two case labels, the one a switch
\* runs) after the admin lookup, up to storage.removePlayer's await
RemovePlayerAdmin(t) ==
  /\ At(t, "removePlayer", "player")
  /\ LET r == tasks[t]
     IN IF r.player = NoPlayer THEN Reject(t, ErrAdminNotFound, "player")
        ELSE IF ~IsAdmin(r.player) THEN Reject(t, ErrOnlyAdminRemove, "player")
        ELSE IF r.p.playerId = 0 THEN Reject(t, ErrInvalidPlayerId, "player")
        ELSE /\ Goto(t, [r EXCEPT !.pc = "rp_read", !.target = getPlayer(r.p.playerId)])
             /\ Quiet(t, "player")

\* removePlayer after `await this.getPlayer(id)`
RemovePlayer(t) ==
  /\ At(t, "removePlayer", "rp_read")
  /\ IF tasks[t].target = NoPlayer
     THEN Reject(t, ErrGeneric, "rp_read")
     ELSE /\ players' = PlayersAfterRemove(tasks[t].p.playerId)
          /\ definitions' = DefinitionsAfterRemove(tasks[t].p.playerId)
          /\ votes' = VotesAfterRemove(tasks[t].p.playerId)
          /\ Goto(t, [tasks[t] EXCEPT !.pc = "rp_removed", !.target = NoPlayer])
          /\ Silent(t, "rp_read")
          /\ UNCHANGED <<games, playerIdCounter, definitionIdCounter, voteIdCounter>>

\* after `await storage.removePlayer(playerIdToRemove)`: getGameState
RemovePlayerState(t) ==
  /\ At(t, "removePlayer", "rp_removed")
  /\ CallGetGameState(t, tasks[t], gameId[tasks[t].conn], RoundOr1(tasks[t].p.round))
  /\ Quiet(t, "rp_removed")



\* ------------------------------------------------------------------ close
\* gameRooms.get(gid)?.delete(sid), and the room with it when that empties it
RoomDelete(gid, sid) ==
  LET room == SelectSeq(gameRooms[gid], LAMBDA x : x # sid)
  IN [k \in (IF room = <<>> THEN DOMAIN gameRooms \ {gid} ELSE DOMAIN gameRooms) |->
        IF k = gid THEN room ELSE gameRooms[k]]

\* ws.on("close"): the connection's latest session id leaves the connections
\* map and the room of the connection's latest gameId.  The close is taken
\* between two messages.
Close(c) ==
  /\ InFlight = {}
  /\ readyState[c] = "open"
  /\ readyState' = [readyState EXCEPT ![c] = "closed"]
  /\ IF sessionId[c] # ""
     THEN /\ connections' = [connections EXCEPT ![sessionId[c]] = NoConn]
          /\ gameRooms' = IF gameId[c] # 0 /\ gameId[c] \in DOMAIN gameRooms
                          THEN RoomDelete(gameId[c], sessionId[c])
                          ELSE gameRooms
     ELSE UNCHANGED registry
  /\ sent' = {}
  /\ last' = [type |-> "close", conn |-> c, at |-> "close"]
  /\ done' = done
  /\ UNCHANGED <<store, sessionId, gameId, tasks>>

\* ------------------------------------------------------------- the REST API
\* The requests of routes.ts are taken between two messages, as one step each.
Rest(what) ==
  /\ InFlight = {}
  /\ sent' = {}
  /\ last' = [type |-> what, conn |-> 0, at |-> "rest"]
  /\ done' = done
  /\ UNCHANGED <<registry, closure, tasks>>

\* POST /api/games/:gameId/definitions
PostDefinition(gid, pid, round, text, isCorrect) ==
  /\ definitionIdCounter <= MaxDefinitions
  /\ getGame(gid) # NoGame
  /\ definitions' = definitions \cup {NewDefinition(gid, pid, text, isCorrect, RoundOr1(round))}
  /\ definitionIdCounter' = definitionIdCounter + 1
  /\ Rest("POST definitions")
  /\ UNCHANGED <<games, players, votes, playerIdCounter, voteIdCounter>>

\* POST /api/games/:gameId/votes
PostVote(gid, pid, did, round) ==
  /\ voteIdCounter <= MaxVotes
  /\ getGame(gid) # NoGame
  /\ votes' = votes \cup {NewVote(gid, pid, did, RoundOr1(round))}
  /\ voteIdCounter' = voteIdCounter + 1
  /\ Rest("POST votes")
  /\ UNCHANGED <<games, players, definitions, playerIdCounter, definitionIdCounter>>

\* ---------------------------------------------------------- specifications
\* The server after start-up and the creation of the games: nobody has joined.
NewGame(id) ==
  [id |-> id, phase |-> PhaseWordEntry, currentWord |-> <<>>, currentRound |-> 1]

Init ==
  /\ games = {NewGame(id) : id \in GameIds}
  /\ players = {}
  /\ definitions = {}
  /\ votes = {}
  /\ playerIdCounter = 1
  /\ definitionIdCounter = 1
  /\ voteIdCounter = 1
  /\ connections = [s \in Sessions |-> NoConn]
  /\ gameRooms = <<>>
  /\ sessionId = [c \in Conns |-> ""]
  /\ gameId = [c \in Conns |-> 0]
  /\ readyState = [c \in Conns |-> "open"]
  /\ tasks = [t \in Slots |-> Idle]
  /\ sent = {}
  /\ last = [type |-> "idle", conn |-> 0, at |-> "init"]
  /\ done = {}

\* The steps of the handlers in flight, case by case.
GetGameState(t) == GetGameStatePlayers(t) \/ GetGameStateDefinitions(t) \/ GetGameStateVotes(t)

BroadcastGameState(t) == Broadcast(t) \/ BroadcastSend(t)

Join(t) == JoinGame(t) \/ JoinPlayer(t) \/ JoinCreate(t) \/ JoinState(t)

SubmitWord(t) ==
  SubmitWordPlayer(t) \/ UpdateGameWord(t) \/ SubmitWordPhase(t) \/ SubmitWordState(t)

SubmitDefinition(t) ==
  SubmitDefinitionPlayer(t) \/ SubmitDefinitionCreate(t) \/ SubmitDefinitionState(t)

EndSubmissions(t) == EndSubmissionsPlayer(t) \/ EndSubmissionsState(t)

SubmitVote(t) == SubmitVotePlayer(t) \/ SubmitVoteCreate(t) \/ SubmitVoteState(t)

EndVoting(t) ==
  \/ EndVotingPlayer(t) \/ EndVotingDefinitions(t) \/ EndVotingVotes(t)
  \/ EndVotingAuthor(t) \/ EndVotingAuthorScore(t) \/ EndVotingAuthorNext(t)
  \/ EndVotingVoter(t) \/ EndVotingVoterScore(t) \/ EndVotingVoterNext(t)

NewRound(t) == NewRoundPlayer(t) \/ StartNewRound(t) \/ NewRoundState(t)

CancelRound(t) ==
  CancelRoundPlayer(t) \/ CancelRoundClear(t) \/ CancelRoundWrite(t) \/ CancelRoundState(t)

AwardBonus(t) ==
  \/ AwardBonusPlayer(t) \/ AwardBonusTarget(t) \/ AwardBonusScore(t)
  \/ AwardBonusGame(t) \/ AwardBonusState(t)

RemovePlayerCase(t) == RemovePlayerAdmin(t) \/ RemovePlayer(t) \/ RemovePlayerState(t)

\* One message at a time: sessions join game 1, as players or as spectators.
JoinPayload(sid, role) ==
  [NoPayload EXCEPT !.gameId = 1, !.sessionId = sid, !.role = role]

NextJoin ==
  \/ \E c \in Conns, sid \in Sessions, role \in {"", SPECTATOR} :
        RecvJoin(1, c, JoinPayload(sid, role))
  \/ \E t \in Slots : Join(t) \/ GetGameState(t) \/ BroadcastGameState(t)

SpecJoin == Init /\ [][NextJoin]_vars

\* Three sessions have joined game 1, each on a connection of its own: s1,
\* the first to join and so the admin, then s2, then s3 as a spectator.
Joined ==
  /\ games = {NewGame(id) : id \in GameIds}
  /\ players = {NewPlayerRecord(1, 1, "s1", PLAYER, TRUE),
                NewPlayerRecord(2, 1, "s2", PLAYER, FALSE),
                NewPlayerRecord(3, 1, "s3", SPECTATOR, FALSE)}
  /\ definitions = {}
  /\ votes = {}
  /\ playerIdCounter = 4
  /\ definitionIdCounter = 1
  /\ voteIdCounter = 1
  /\ connections = [s \in Sessions |-> CASE s = "s1" -> 1 [] s = "s2" -> 2 [] s = "s3" -> 3]
  /\ gameRooms = [g \in {1} |-> <<"s1", "s2", "s3">>]
  /\ sessionId = [c \in Conns |-> CASE c = 1 -> "s1" [] c = 2 -> "s2" [] c = 3 -> "s3"]
  /\ gameId = [c \in Conns |-> 1]
  /\ readyState = [c \in Conns |-> "open"]
  /\ tasks = [t \in Slots |-> Idle]
  /\ sent = {}
  /\ last = [type |-> "idle", conn |-> 0, at |-> "init"]
  /\ done = {}

Rounds == 1..MaxRound

\* The messages of the scenarios: what their payloads carry.
Definition(round) == [NoPayload EXCEPT !.round = round, !.text = "t"]
Vote(round, did) == [NoPayload EXCEPT !.round = round, !.definitionId = did]
Word(w) == [NoPayload EXCEPT !.wordType = "string", !.word = w]
Bonus(pid) == [NoPayload EXCEPT !.playerId = pid]
Round(round) == [NoPayload EXCEPT !.round = round]
Remove(pid) == [NoPayload EXCEPT !.playerId = pid]
DefinitionAs(round, isCorrect) ==
  [NoPayload EXCEPT !.round = round, !.text = "t", !.isCorrect = isCorrect]

\* Two handlers may be in flight: player 2 submits definitions and votes for
\* round 1, also twice and at the same time.
NextRace ==
  \/ RecvCommand(2, 2, "submitDefinition", Definition(1))
  \/ \E d \in 1..MaxDefinitions : RecvCommand(2, 2, "submitVote", Vote(1, d))
  \/ \E t \in Slots : SubmitDefinition(t) \/ SubmitVote(t)
  \/ \E t \in Slots : GetGameState(t) \/ BroadcastGameState(t)

SpecRace == Joined /\ [][NextRace]_vars

\* Two handlers may be in flight: the admin starts and cancels rounds.
NextRounds ==
  \/ \E c \in {1, 3} : RecvCommand(2, c, "newRound", NoPayload)
  \/ \E c \in {1, 2} : RecvCommand(2, c, "cancelRound", NoPayload)
  \/ \E t \in Slots : NewRound(t) \/ CancelRound(t)
  \/ \E t \in Slots : GetGameState(t) \/ BroadcastGameState(t)

SpecRounds == Joined /\ [][NextRounds]_vars

\* One message at a time: player 2 submits definitions for any round and votes
\* for any round and any definition id, and the admin cancels rounds.
NextSubmit ==
  \/ \E r \in 0..MaxRound : RecvCommand(1, 2, "submitDefinition", Definition(r))
  \/ \E r \in Rounds, d \in 1..MaxDefinitions : RecvCommand(1, 2, "submitVote", Vote(r, d))
  \/ RecvCommand(1, 1, "cancelRound", NoPayload)
  \/ \E t \in Slots : SubmitDefinition(t) \/ SubmitVote(t) \/ CancelRound(t)
  \/ \E t \in Slots : GetGameState(t) \/ BroadcastGameState(t)

SpecSubmit == Joined /\ [][NextSubmit]_vars

\* One message at a time: the phase commands in any order, from the admin and
\* from the spectator, over definitions and votes of round 1 posted by player 2.
NextPhases ==
  \/ \E b \in BOOLEAN : PostDefinition(1, 2, 1, "t", b)
  \/ \E d \in 1..MaxDefinitions : PostVote(1, 2, d, 1)
  \/ \E c \in {1, 3}, w \in {<<"a">>, <<" ">>} : RecvCommand(1, c, "submitWord", Word(w))
  \/ \E c \in {1, 3} : RecvCommand(1, c, "endSubmissions", NoPayload)
  \/ \E c \in {1, 3} : RecvCommand(1, c, "endVoting", NoPayload)
  \/ \E c \in {1, 3} : RecvCommand(1, c, "newRound", NoPayload)
  \/ \E c \in {1, 2} : RecvCommand(1, c, "cancelRound", NoPayload)
  \/ \E t \in Slots : SubmitWord(t) \/ EndSubmissions(t) \/ EndVoting(t) \/ UpdateGamePhase(t)
  \/ \E t \in Slots : NewRound(t) \/ CancelRound(t)
  \/ \E t \in Slots : GetGameState(t) \/ BroadcastGameState(t)

SpecPhases == Joined /\ [][NextPhases]_vars

\* One message at a time: definitions and votes of player 2 and of the
\* spectator, correct or not, are scored by endVoting for round 1, and the admin
\* awards bonuses to both.
NextScoring ==
  \/ \E pid \in {2, 3}, b \in BOOLEAN : PostDefinition(1, pid, 1, "t", b)
  \/ \E pid \in {2, 3}, d \in 1..MaxDefinitions : PostVote(1, pid, d, 1)
  \/ RecvCommand(1, 1, "endVoting", Round(1))
  \/ \E pid \in {2, 3} : RecvCommand(1, 1, "awardBonus", Bonus(pid))
  \/ \E t \in Slots : EndVoting(t) \/ UpdateGamePhase(t) \/ AwardBonus(t)
  \/ \E t \in Slots : GetGameState(t) \/ BroadcastGameState(t)

SpecScoring == Joined /\ [][NextScoring]_vars

\* One message at a time: rounds are played and cancelled in game 1 while
\* definitions and votes of its rounds 1 and 2 and of game 2 are stored.
Stored == {<<1, 1>>, <<1, 2>>, <<2, 1>>}

NextCancel ==
  \/ \E k \in Stored : PostDefinition(k[1], 2, k[2], "t", FALSE)
  \/ \E k \in Stored : PostVote(k[1], 2, 1, k[2])
  \/ RecvCommand(1, 1, "submitWord", Word(<<"a">>))
  \/ RecvCommand(1, 1, "endSubmissions", NoPayload)
  \/ RecvCommand(1, 1, "newRound", NoPayload)
  \/ RecvCommand(1, 1, "cancelRound", NoPayload)
  \/ \E t \in Slots : SubmitWord(t) \/ EndSubmissions(t) \/ UpdateGamePhase(t)
  \/ \E t \in Slots : NewRound(t) \/ CancelRound(t)
  \/ \E t \in Slots : GetGameState(t) \/ BroadcastGameState(t)

SpecCancel == Joined /\ [][NextCancel]_vars

\* One message at a time: the admin, player 2 and the spectator each send the
\* admin commands, over a definition and a vote of player 2.
NextAdmin ==
  \/ PostDefinition(1, 2, 1, "t", FALSE)
  \/ PostVote(1, 2, 1, 1)
  \/ \E c \in Conns : RecvCommand(1, c, "cancelRound", NoPayload)
  \/ \E c \in Conns : RecvCommand(1, c, "awardBonus", Bonus(2))
  \/ \E c \in Conns, pid \in {2, 3} : RecvCommand(1, c, "removePlayer", Remove(pid))
  \/ \E t \in Slots : CancelRound(t) \/ AwardBonus(t) \/ RemovePlayerCase(t)
  \/ \E t \in Slots : GetGameState(t) \/ BroadcastGameState(t)

SpecAdmin == Joined /\ [][NextAdmin]_vars

\* Game 1 when its first joiner asked for the spectator role: s1 is a spectator
\* and, as the first Player of the game, its admin; s2 and s3 are players.
SpectatorFirst ==
  /\ games = {NewGame(id) : id \in GameIds}
  /\ players = {NewPlayerRecord(1, 1, "s1", SPECTATOR, TRUE),
                NewPlayerRecord(2, 1, "s2", PLAYER, FALSE),
                NewPlayerRecord(3, 1, "s3", PLAYER, FALSE)}
  /\ definitions = {}
  /\ votes = {}
  /\ playerIdCounter = 4
  /\ definitionIdCounter = 1
  /\ voteIdCounter = 1
  /\ connections = [s \in Sessions |-> CASE s = "s1" -> 1 [] s = "s2" -> 2 [] s = "s3" -> 3]
  /\ gameRooms = [g \in {1} |-> <<"s1", "s2", "s3">>]
  /\ sessionId = [c \in Conns |-> CASE c = 1 -> "s1" [] c = 2 -> "s2" [] c = 3 -> "s3"]
  /\ gameId = [c \in Conns |-> 1]
  /\ readyState = [c \in Conns |-> "open"]
  /\ tasks = [t \in Slots |-> Idle]
  /\ sent = {}
  /\ last = [type |-> "idle", conn |-> 0, at |-> "init"]
  /\ done = {}

\* One message at a time: the spectator who joined first sends every command,
\* over a word submitted by player 2 and a definition and a vote of player 2.
NextSpectator ==
  \/ PostDefinition(1, 2, 1, "t", FALSE)
  \/ PostVote(1, 2, 1, 1)
  \/ \E c \in {1, 2} : RecvCommand(1, c, "submitWord", Word(<<"a">>))
  \/ RecvCommand(1, 1, "submitDefinition", Definition(1))
  \/ RecvCommand(1, 1, "endSubmissions", NoPayload)
  \/ RecvCommand(1, 1, "submitVote", Vote(1, 1))
  \/ RecvCommand(1, 1, "endVoting", Round(1))
  \/ RecvCommand(1, 1, "newRound", NoPayload)
  \/ RecvCommand(1, 1, "cancelRound", NoPayload)
  \/ RecvCommand(1, 1, "awardBonus", Bonus(2))
  \/ RecvCommand(1, 1, "removePlayer", Remove(2))
  \/ \E t \in Slots : SubmitWord(t) \/ UpdateGamePhase(t)
  \/ \E t \in Slots : SubmitDefinitionPlayer(t) \/ EndSubmissionsPlayer(t)
  \/ \E t \in Slots : SubmitVotePlayer(t) \/ EndVotingPlayer(t) \/ NewRoundPlayer(t)
  \/ \E t \in Slots : CancelRound(t) \/ AwardBonus(t) \/ RemovePlayerCase(t)
  \/ \E t \in Slots : GetGameState(t) \/ BroadcastGameState(t)

SpecSpectator == SpectatorFirst /\ [][NextSpectator]_vars

\* Two handlers may be in flight: sessions s1 and s2 join game 1 on connections
\* 1 and 2, each on either, also at the same time.
NextJoinRace ==
  \/ \E c \in {1, 2}, sid \in {"s1", "s2"} : RecvJoin(2, c, JoinPayload(sid, ""))
  \/ \E t \in Slots : Join(t) \/ GetGameState(t) \/ BroadcastGameState(t)

SpecJoinRace == Init /\ [][NextJoinRace]_vars

\* One message at a time: sessions s1 and s2, each on a connection of its own,
\* join game 1 and game 2, in any order and more than once.
JoinGamePayload(gid, sid) == [NoPayload EXCEPT !.gameId = gid, !.sessionId = sid]

NextRejoin ==
  \/ \E gid \in GameIds : RecvJoin(1, 1, JoinGamePayload(gid, "s1"))
  \/ \E gid \in GameIds : RecvJoin(1, 2, JoinGamePayload(gid, "s2"))
  \/ \E t \in Slots : Join(t) \/ GetGameState(t) \/ BroadcastGameState(t)

SpecRejoin == Init /\ [][NextRejoin]_vars

\* One message at a time: the admin removes player 2 and the spectator, over
\* definitions and votes of both in rounds 1 and 2.
NextRemove ==
  \/ \E pid \in {2, 3}, r \in Rounds : PostDefinition(1, pid, r, "t", FALSE)
  \/ \E pid \in {2, 3}, r \in Rounds : PostVote(1, pid, 1, r)
  \/ \E pid \in {2, 3} : RecvCommand(1, 1, "removePlayer", Remove(pid))
  \/ \E t \in Slots : RemovePlayerCase(t) \/ GetGameState(t) \/ BroadcastGameState(t)

SpecRemove == Joined /\ [][NextRemove]_vars

\* One message at a time: the admin removes player 2 and ends the voting of
\* round 1, over definitions (the admin's correct or not) and votes of the admin
\* and of player 2 posted before and after the removal.
NextDangling ==
  \/ \E b \in BOOLEAN : PostDefinition(1, 1, 1, "t", b)
  \/ PostDefinition(1, 2, 1, "t", FALSE)
  \/ \E pid \in {1, 2}, d \in 1..MaxDefinitions : PostVote(1, pid, d, 1)
  \/ RecvCommand(1, 1, "removePlayer", Remove(2))
  \/ RecvCommand(1, 1, "endVoting", Round(1))
  \/ \E t \in Slots : RemovePlayerCase(t) \/ EndVoting(t) \/ UpdateGamePhase(t)
  \/ \E t \in Slots : GetGameState(t) \/ BroadcastGameState(t)

SpecDangling == Joined /\ [][NextDangling]_vars

\* One message at a time: session s1 joins game 1 and a game that does not
\* exist (id 3) on connection 1, in any order, and submits, votes, ends the
\* voting, awards itself a bonus and removes a player that does not exist.
NextStray ==
  \/ \E gid \in {1, 3} : RecvJoin(1, 1, JoinGamePayload(gid, "s1"))
  \/ \E b \in BOOLEAN : RecvCommand(1, 1, "submitDefinition", DefinitionAs(1, b))
  \/ RecvCommand(1, 1, "submitVote", Vote(1, 1))
  \/ RecvCommand(1, 1, "endVoting", Round(1))
  \/ RecvCommand(1, 1, "awardBonus", Bonus(1))
  \/ RecvCommand(1, 1, "removePlayer", Remove(2))
  \/ \E t \in Slots : Join(t) \/ SubmitDefinition(t) \/ SubmitVote(t)
  \/ \E t \in Slots : EndVoting(t) \/ UpdateGamePhase(t) \/ AwardBonus(t)
  \/ \E t \in Slots : RemovePlayerAdmin(t) \/ RemovePlayer(t)
  \/ \E t \in Slots : GetGameState(t) \/ BroadcastGameState(t)

SpecStray == Init /\ [][NextStray]_vars

\* The word field of a submitWord: missing, a number, the empty string, blanks,
\* a word, a word between blanks.
Words ==
  {NoPayload,
   [NoPayload EXCEPT !.wordType = "number", !.word = <<"a">>],
   Word(<<>>), Word(<<" ">>), Word(<<" ", " ">>), Word(<<"a">>), Word(<<" ", "a", " ">>)}

\* One message at a time: the admin and the spectator submit words of every
\* kind, and the admin ends the submissions and cancels the round.
NextWord ==
  \/ \E c \in {1, 3}, p \in Words : RecvCommand(1, c, "submitWord", p)
  \/ RecvCommand(1, 1, "endSubmissions", NoPayload)
  \/ RecvCommand(1, 1, "cancelRound", NoPayload)
  \/ \E t \in Slots : SubmitWord(t) \/ EndSubmissions(t) \/ UpdateGamePhase(t)
  \/ \E t \in Slots : CancelRound(t) \/ GetGameState(t) \/ BroadcastGameState(t)

SpecWord == Joined /\ [][NextWord]_vars

\* One message at a time: the admin and player 2 submit definitions for round
\* 1 with no text, a blank text or a text, flagged correct or not.
Texts == {"", " ", "t"}

NextDefinition ==
  \/ \E c \in {1, 2}, text \in Texts, b \in BOOLEAN :
        RecvCommand(1, c, "submitDefinition",
                    [NoPayload EXCEPT !.round = 1, !.text = text, !.isCorrect = b])
  \/ \E t \in Slots : SubmitDefinition(t) \/ GetGameState(t) \/ BroadcastGameState(t)

SpecDefinition == Joined /\ [][NextDefinition]_vars

\* Two handlers may be in flight: session s1 joins game 1 on connection 1 and
\* submits a word on the same connection, without waiting for a reply.
NextOrder ==
  \/ RecvJoin(2, 1, JoinPayload("s1", ""))
  \/ RecvCommand(2, 1, "submitWord", Word(<<"a">>))
  \/ \E t \in Slots : Join(t) \/ SubmitWord(t) \/ UpdateGamePhase(t)
  \/ \E t \in Slots : GetGameState(t) \/ BroadcastGameState(t)

SpecOrder == Init /\ [][NextOrder]_vars

\* Two handlers may be in flight: the admin awards bonuses to player 2 and
\* ends the voting of round 1, in which a definition of player 2, correct or
\* not, has the vote of player 2.
NextAwards ==
  \/ \E b \in BOOLEAN : PostDefinition(1, 2, 1, "t", b)
  \/ PostVote(1, 2, 1, 1)
  \/ RecvCommand(2, 1, "endVoting", Round(1))
  \/ RecvCommand(2, 1, "awardBonus", Bonus(2))
  \/ \E t \in Slots : EndVoting(t) \/ UpdateGamePhase(t) \/ AwardBonus(t)
  \/ \E t \in Slots : GetGameState(t) \/ BroadcastGameState(t)

SpecAwards == Joined /\ [][NextAwards]_vars

\* One message at a time: sessions s1 and s2, each on its own connection,
\* join games 1 and 2 and a game 3 that does not exist, in any order and also
\* without joining, and close their connections between two messages.
NextClose ==
  \/ \E gid \in GameIds \cup {3} : RecvJoin(1, 1, JoinGamePayload(gid, "s1"))
  \/ \E gid \in GameIds \cup {3} : RecvJoin(1, 2, JoinGamePayload(gid, "s2"))
  \/ \E c \in {1, 2} : Close(c)
  \/ \E t \in Slots : Join(t) \/ GetGameState(t) \/ BroadcastGameState(t)

SpecClose == Init /\ [][NextClose]_vars

\* One message at a time: the admin awards bonuses to the players and to the
\* spectator while it takes the game through the phases, over a definition of
\* player 2, correct or not, with player 2's vote.
NextBonus ==
  \/ \E b \in BOOLEAN : PostDefinition(1, 2, 1, "t", b)
  \/ PostVote(1, 2, 1, 1)
  \/ RecvCommand(1, 1, "submitWord", Word(<<"a">>))
  \/ RecvCommand(1, 1, "endSubmissions", NoPayload)
  \/ RecvCommand(1, 1, "endVoting", Round(1))
  \/ \E pid \in 1..MaxPlayers : RecvCommand(1, 1, "awardBonus", Bonus(pid))
  \/ \E t \in Slots : SubmitWord(t) \/ EndSubmissions(t) \/ EndVoting(t) \/ UpdateGamePhase(t)
  \/ \E t \in Slots : AwardBonus(t) \/ GetGameState(t) \/ BroadcastGameState(t)

SpecBonus == Joined /\ [][NextBonus]_vars

\* One message at a time: the admin awards a bonus to and removes player 2,
\* the spectator and a player that does not exist.
NextMissing ==
  \/ \E pid \in 2..MaxPlayers + 1 : RecvCommand(1, 1, "awardBonus", Bonus(pid))
  \/ \E pid \in 2..MaxPlayers + 1 : RecvCommand(1, 1, "removePlayer", Remove(pid))
  \/ \E t \in Slots : AwardBonus(t) \/ RemovePlayerCase(t)
  \/ \E t \in Slots : GetGameState(t) \/ BroadcastGameState(t)

SpecMissing == Joined /\ [][NextMissing]_vars

\* One message at a time: sessions s1, s2 and s3, each on a connection of its
\* own, join (s1 and s2 game 1, s3 either game), the first two send the admin
\* commands and close their connections, in any order.
SessionOf(c) == CASE c = 1 -> "s1" [] c = 2 -> "s2" [] c = 3 -> "s3"

NextKeeps ==
  \/ \E c \in {1, 2} : RecvJoin(1, c, JoinGamePayload(1, SessionOf(c)))
  \/ \E gid \in GameIds : RecvJoin(1, 3, JoinGamePayload(gid, SessionOf(3)))
  \/ \E c \in {1, 2} : Close(c)
  \/ RecvCommand(1, 1, "cancelRound", NoPayload)
  \/ RecvCommand(1, 1, "awardBonus", Bonus(2))
  \/ \E c \in {1, 2}, pid \in {1, 2} : RecvCommand(1, c, "removePlayer", Remove(pid))
  \/ \E t \in Slots : Join(t) \/ CancelRound(t) \/ AwardBonus(t) \/ RemovePlayerCase(t)
  \/ \E t \in Slots : GetGameState(t) \/ BroadcastGameState(t)

SpecKeeps == Init /\ [][NextKeeps]_vars

\* One message at a time: session s1 joins and rejoins game 1 on connection 1,
\* with no round in the payload, and starts new rounds, while definitions and
\* votes of player 1 are posted for rounds 1 and 2.
NextResend ==
  \/ RecvJoin(1, 1, JoinGamePayload(1, "s1"))
  \/ \E r \in Rounds : PostDefinition(1, 1, r, "t", FALSE)
  \/ \E r \in Rounds : PostVote(1, 1, 1, r)
  \/ RecvCommand(1, 1, "newRound", NoPayload)
  \/ \E t \in Slots : Join(t) \/ NewRound(t)
  \/ \E t \in Slots : GetGameState(t) \/ BroadcastGameState(t)

SpecResend == Init /\ [][NextResend]_vars

\* One message at a time: player 2, no admin, sends the phase commands in any
\* order, while the admin cancels rounds; no definition is stored, so that
\* endVoting has nothing to score.  Every handler that has started runs on
\* (the event loop resumes each awaiting handler), and player 2 goes on
\* sending each of its commands.
CycleStep(t) ==
  \/ SubmitWord(t) \/ EndSubmissions(t) \/ UpdateGamePhase(t)
  \/ EndVotingPlayer(t) \/ EndVotingDefinitions(t) \/ EndVotingVotes(t)
  \/ NewRound(t) \/ CancelRound(t)
  \/ GetGameState(t) \/ BroadcastGameState(t)

CycleWord == RecvCommand(1, 2, "submitWord", Word(<<"a">>))
CycleEndSubmissions == RecvCommand(1, 2, "endSubmissions", NoPayload)
CycleEndVoting == RecvCommand(1, 2, "endVoting", NoPayload)
CycleNewRound == RecvCommand(1, 2, "newRound", NoPayload)

NextCycle ==
  \/ RecvCommand(1, 1, "cancelRound", NoPayload)
  \/ CycleWord \/ CycleEndSubmissions \/ CycleEndVoting \/ CycleNewRound
  \/ \E t \in Slots : CycleStep(t)

SpecCycle ==
  /\ Joined /\ [][NextCycle]_vars
  /\ \A t \in Slots : WF_vars(CycleStep(t))
  /\ SF_vars(CycleWord) /\ SF_vars(CycleEndSubmissions)
  /\ SF_vars(CycleEndVoting) /\ SF_vars(CycleNewRound)

\* One message at a time: session s1 joins game 1 or game 2 on connection 1
\* and on connection 2 (a reconnect), session s2 joins game 1 on connection 3,
\* and the connections of s1 close between two messages.
NextReconnect ==
  \/ \E c \in {1, 2}, gid \in GameIds : RecvJoin(1, c, JoinGamePayload(gid, "s1"))
  \/ RecvJoin(1, 3, JoinGamePayload(1, "s2"))
  \/ \E c \in {1, 2} : Close(c)
  \/ \E t \in Slots : Join(t) \/ GetGameState(t) \/ BroadcastGameState(t)

SpecReconnect == Init /\ [][NextReconnect]_vars

\* One message at a time: session s1 joins game 1 and game 2 on connection 1,
\* session s2 joins game 2 on connection 2, and s1 sends the admin commands.
NextForeign ==
  \/ \E gid \in GameIds : RecvJoin(1, 1, JoinGamePayload(gid, "s1"))
  \/ RecvJoin(1, 2, JoinGamePayload(2, "s2"))
  \/ RecvCommand(1, 1, "cancelRound", NoPayload)
  \/ \E pid \in {1, 2} : RecvCommand(1, 1, "awardBonus", Bonus(pid))
  \/ \E pid \in {1, 2} : RecvCommand(1, 1, "removePlayer", Remove(pid))
  \/ \E t \in Slots : Join(t) \/ CancelRound(t) \/ AwardBonus(t) \/ RemovePlayerCase(t)
  \/ \E t \in Slots : GetGameState(t) \/ BroadcastGameState(t)

SpecForeign == Init /\ [][NextForeign]_vars

\* One message at a time: session s1 joins game 1 on connection 1, session s2
\* joins game 2 on connection 2, each the admin of its game, and s1 awards
\* bonuses to and removes players 1 and 2, over definitions and votes posted
\* in game 2.
NextAcross ==
  \/ RecvJoin(1, 1, JoinGamePayload(1, "s1"))
  \/ RecvJoin(1, 2, JoinGamePayload(2, "s2"))
  \/ \E pid \in {1, 2} : PostDefinition(2, pid, 1, "t", FALSE)
  \/ \E pid \in {1, 2} : PostVote(2, pid, 1, 1)
  \/ \E pid \in {1, 2} : RecvCommand(1, 1, "awardBonus", Bonus(pid))
  \/ \E pid \in {1, 2} : RecvCommand(1, 1, "removePlayer", Remove(pid))
  \/ \E t \in Slots : Join(t) \/ AwardBonus(t) \/ RemovePlayerCase(t)
  \/ \E t \in Slots : GetGameState(t) \/ BroadcastGameState(t)

SpecAcross == Init /\ [][NextAcross]_vars

\* Two handlers may be in flight: the admin awards a bonus to player 2, while
\* player 2 is stored, and removes player 2, also at the same time.
NextRevive ==
  \/ getPlayer(2) # NoPlayer /\ RecvCommand(2, 1, "awardBonus", Bonus(2))
  \/ RecvCommand(2, 1, "removePlayer", Remove(2))
  \/ \E t \in Slots : AwardBonus(t) \/ RemovePlayerCase(t)
  \/ \E t \in Slots : GetGameState(t) \/ BroadcastGameState(t)

SpecRevive == Joined /\ [][NextRevive]_vars

\* ------------------------------------------------------------------ claims
\* The game and the round the handler in slot t works on.
GameOf(t) == gameId[tasks[t].conn]
RoundOf(t) == RoundOr1(tasks[t].p.round)

\* The step is one of the handler in slot t.
Steps(t) == tasks'[t] # tasks[t]

Errors(msgs, c) == {m \in msgs : m.type = "error" /\ m.to = c}
GameStates(msgs) == {m \in msgs : m.type = "gameState"}

\* C1: whatever the interleaving of two submitDefinition handlers of one player
\* for one round, at most one Definition of that (gameId, playerId, round) is
\* stored (the other submission being rejected).
C1_OneDefinitionPerPlayerAndRound ==
  \A a, b \in definitions :
    (a.gameId = b.gameId /\ a.playerId = b.playerId /\ a.round = b.round) => a = b

\* C2: in every reachable state, whatever the interleaving of the submitVote
\* handlers, there is at most one Vote per (gameId, playerId, round).
C2_OneVotePerPlayerAndRound ==
  \A a, b \in votes :
    (a.gameId = b.gameId /\ a.playerId = b.playerId /\ a.round = b.round) => a = b

\* The submitDefinition in slot t is handled after a submitDefinition of the
\* same player for the same game and round has completed.
Resubmission(t) ==
  /\ tasks[t].type = "submitDefinition"
  /\ DoneKey(t, "submitDefinition", tasks[t].player.id) \in done

\* The Definition of that player, game and round was stored when the message
\* was received.
StillStored(t) ==
  \E d \in tasks[t].before.definitions :
    d.gameId = GameOf(t) /\ d.playerId = tasks[t].player.id /\ d.round = RoundOf(t)

\* A step of the handler in slot t on its way to a rejection: the definitions
\* stay as they are, no gameState is sent, the handler does not get past its
\* duplicate check, and when it returns an error has gone to the sender.
RejectedStep(t) ==
  /\ definitions' = definitions
  /\ GameStates(sent') = {}
  /\ tasks'[t].pc \in {"sd_defs", "idle"}
  /\ tasks'[t].pc = "idle" => Errors(sent', tasks[t].conn) # {}

\* C3, as the spec states it: a submitDefinition handled after an earlier
\* submitDefinition of the same player for the same (game, round) has completed
\* is rejected: error to the sender, stored Definitions unchanged, no broadcast.
C3_ResubmissionRejected ==
  [][\A t \in Slots : (Resubmission(t) /\ Steps(t)) => RejectedStep(t)]_vars

\* C3, amended: a submitDefinition handled after an earlier submitDefinition of
\* the same player for the same (game, round) has completed, and while the
\* Definition that one stored is still stored, is rejected: error to the sender,
\* stored Definitions unchanged, no broadcast.
C3_ResubmissionRejectedWhileStored ==
  [][\A t \in Slots :
       (Resubmission(t) /\ StillStored(t) /\ Steps(t)) => RejectedStep(t)]_vars

\* A resubmission has just been rejected by the duplicate check.
C3_Witness ==
  /\ last.type = "submitDefinition" /\ last.at = "sd_defs"
  /\ \E m \in Errors(sent, last.conn) : m.message = ErrAlreadySubmitted
  /\ \E k \in done : k.op = "submitDefinition" /\ k.playerId # 0
  /\ definitions # {}

\* The edges of the phase machine and the command of each.
PhaseEdge(from, to, type) ==
  \/ from = PhaseWordEntry /\ to = PhaseDefinition /\ type = "submitWord"
  \/ from = PhaseDefinition /\ to = PhaseVoting /\ type = "endSubmissions"
  \/ from = PhaseVoting /\ to = PhaseResults /\ type = "endVoting"
  \/ from = PhaseResults /\ to = PhaseWordEntry /\ type = "newRound"
  \/ to = PhaseWordEntry /\ type = "cancelRound"

\* C4: a game's phase changes only along the edges of the phase machine, each
\* by its own command; a command received in another phase than its edge's
\* source leaves the phase unchanged.
C4_PhaseEdges ==
  [][\A g \in games, h \in games' :
       (g.id = h.id /\ g.phase # h.phase) => PhaseEdge(g.phase, h.phase, last'.type)]_vars

\* C5: whatever the interleaving of the handlers, no game's currentRound ever
\* decreases, and it increases only by a newRound, by exactly 1.
C5_RoundMonotonic ==
  [][\A g \in games, h \in games' :
       g.id = h.id =>
         /\ h.currentRound >= g.currentRound
         /\ h.currentRound > g.currentRound =>
              (last'.type = "newRound" /\ h.currentRound = g.currentRound + 1)]_vars

Scores == {<<pl.id, pl.score>> : pl \in players}

\* C6: once an endVoting has scored a (gameId, round), a further endVoting for
\* the same game and round, with no newRound or cancelRound in between, changes
\* no player's score.
C6_ScoredOnce ==
  [][\A t \in Slots :
       (tasks[t].type = "endVoting" /\ DoneKey(t, "endVoting", 0) \in done)
         => Scores' = Scores]_vars

\* The votes of V on the definitions of D, summed.
RECURSIVE VotesOn(_, _)
VotesOn(D, V) ==
  IF D = {} THEN 0
  ELSE LET d == CHOOSE x \in D : TRUE
       IN Cardinality({v \in V : v.definitionId = d.id}) + VotesOn(D \ {d}, V)

\* What one scoring pass over the definitions D and the votes V of a round is
\* to give the player pl.
Gain(pl, D, V) ==
  IF pl.isSpectator THEN 0
  ELSE VotesOn({d \in D : ~d.isCorrect /\ d.playerId = pl.id}, V)
       + (IF \E d \in D : d.isCorrect /\
                \E v \in V : v.definitionId = d.id /\ v.playerId = pl.id
          THEN CorrectVotePoints ELSE 0)

\* C7: when an endVoting has finished its scoring pass over round r, every
\* player's score is the score it had when the message was received plus: for a
\* non-spectator, the round-r votes on each non-correct Definition it authored,
\* and 2 if it voted for a correct Definition of the round; nothing otherwise.
C7_ScoringPass ==
  \A t \in Slots :
    At(t, "endVoting", "gs_game") =>
      LET b == tasks[t].before
          D == {d \in b.definitions : d.gameId = GameOf(t) /\ d.round = RoundOf(t)}
          V == {v \in b.votes : v.gameId = GameOf(t) /\ v.round = RoundOf(t)}
      IN \A pl \in players :
           \E old \in b.players : old.id = pl.id /\ pl.score = old.score + Gain(old, D, V)

\* C8: in every reachable state every spectator has score 0, whatever
\* definitions and votes name it and whatever endVoting and awardBonus did.
C8_SpectatorsScoreNothing == \A pl \in players : pl.isSpectator => pl.score = 0

\* The award of a bonus to the spectator has just been refused, after a scoring
\* pass over a voted definition the spectator wrote and over a vote of the
\* spectator for the correct definition.
C8_Witness ==
  /\ last.type = "awardBonus" /\ last.at = "ab_target"
  /\ \E m \in Errors(sent, last.conn) : m.message = ErrSpectatorBonus
  /\ \E k \in done : k.op = "endVoting"
  /\ \E d \in definitions, v \in votes, pl \in players :
       pl.isSpectator /\ d.playerId = pl.id /\ ~d.isCorrect /\ v.definitionId = d.id
  /\ \E d \in definitions, v \in votes, pl \in players :
       pl.isSpectator /\ v.playerId = pl.id /\ d.isCorrect /\ v.definitionId = d.id

\* C9: a submitVote whose definitionId does not identify a stored Definition
\* of the same game and round is rejected: it stores no Vote and an error goes
\* to the sender.
C9_VoteNamesDefinition ==
  [][\A t \in Slots :
       (/\ At(t, "submitVote", "sv_votes") /\ Steps(t)
        /\ ~\E d \in definitions : /\ d.id = tasks[t].p.definitionId
                                   /\ d.gameId = GameOf(t) /\ d.round = RoundOf(t))
       => (votes' = votes /\ Errors(sent', tasks[t].conn) # {})]_vars

Others(S, gid, round) == {x \in S : ~(x.gameId = gid /\ x.round = round)}

\* C10: when an accepted cancelRound has written the game, whose current round
\* was r when the message was received: the phase is WordEntry, currentWord is
\* empty, currentRound is r, no Definition and no Vote of (gameId, r) is
\* stored, and the Definitions and Votes of every other round and game and the
\* other games are what they were.
C10_CancelRound ==
  \A t \in Slots :
    At(t, "cancelRound", "cr_written") =>
      LET b == tasks[t].before
          gid == GameOf(t)
          r == First({g \in b.games : g.id = gid}).currentRound
      IN /\ getGame(gid).phase = PhaseWordEntry
         /\ getGame(gid).currentWord = <<>>
         /\ getGame(gid).currentRound = r
         /\ getDefinitionsByGameId(gid, r) = {}
         /\ getVotesByGameId(gid, r) = {}
         /\ definitions = Others(b.definitions, gid, r)
         /\ votes = Others(b.votes, gid, r)
         /\ {g \in games : g.id # gid} = {g \in b.games : g.id # gid}

\* A cancelRound has written the game: the round had a word, a Definition and a
\* Vote, and a Definition of another game and a Vote of another round are stored.
C10_Witness ==
  \E t \in Slots :
    /\ At(t, "cancelRound", "cr_written")
    /\ LET b == tasks[t].before
           gid == GameOf(t)
           old == First({g \in b.games : g.id = gid})
       IN /\ old.phase # PhaseWordEntry /\ old.currentWord # <<>>
          /\ \E d \in b.definitions : d.gameId = gid /\ d.round = old.currentRound
          /\ \E v \in b.votes : v.gameId = gid /\ v.round = old.currentRound
          /\ \E d \in b.definitions : d.gameId # gid
          /\ \E v \in b.votes : v.gameId = gid /\ v.round # old.currentRound

\* The Game of id gid in the store b as it was when a message was received.
GameBefore(b, gid) == First({g \in b.games : g.id = gid})

\* C11: when an accepted newRound has written the game, whose current round was
\* r when the message was received: currentRound is r + 1, the phase is
\* WordEntry, currentWord is empty, every Definition, Vote and Player (scores
\* included) is what it was, and the Definitions and Votes of round r are
\* still what a query by that round number returns.
C11_NewRound ==
  \A t \in Slots :
    At(t, "newRound", "nr_written") =>
      LET b == tasks[t].before
          gid == GameOf(t)
          r == GameBefore(b, gid).currentRound
      IN /\ getGame(gid).currentRound = r + 1
         /\ getGame(gid).phase = PhaseWordEntry
         /\ getGame(gid).currentWord = <<>>
         /\ definitions = b.definitions
         /\ votes = b.votes
         /\ players = b.players
         /\ getDefinitionsByGameId(gid, r) =
              {d \in b.definitions : d.gameId = gid /\ d.round = r}
         /\ getVotesByGameId(gid, r) = {v \in b.votes : v.gameId = gid /\ v.round = r}

\* A newRound has written the game: the round it ends had a word, was past
\* WordEntry, and a Definition and a Vote of it are stored.
C11_Witness ==
  \E t \in Slots :
    /\ At(t, "newRound", "nr_written")
    /\ LET b == tasks[t].before
           gid == GameOf(t)
           old == GameBefore(b, gid)
       IN /\ old.phase # PhaseWordEntry /\ old.currentWord # <<>>
          /\ \E d \in definitions : d.gameId = gid /\ d.round = old.currentRound
          /\ \E v \in votes : v.gameId = gid /\ v.round = old.currentRound

AdminCommands == {"cancelRound", "awardBonus", "removePlayer"}

\* C12: a cancelRound, an awardBonus or a removePlayer whose sender is a player
\* with isAdmin false is rejected: its handler returns at once with an error to
\* the sender, no Game, Player, Definition or Vote changes and no gameState is
\* sent.
C12_NonAdminRejected ==
  [][\A t \in Slots :
       (/\ tasks[t].type \in AdminCommands /\ Steps(t)
        /\ tasks[t].player # NoPlayer /\ ~tasks[t].player.isAdmin)
       => /\ <<games, players, definitions, votes>>' = <<games, players, definitions, votes>>
          /\ tasks'[t] = Idle
          /\ GameStates(sent') = {}
          /\ Errors(sent', tasks[t].conn) # {}]_vars

\* Player 2, no admin, has just been refused the removal of a player while a
\* definition and a vote are stored.
C12_Witness ==
  /\ last.type = "removePlayer" /\ last.conn = 2
  /\ \E m \in Errors(sent, 2) : m.message = ErrOnlyAdminRemove
  /\ definitions # {} /\ votes # {}
  /\ Cardinality(players) = MaxPlayers

\* C13: no step of a command whose sender is a spectator changes a game's
\* phase, currentWord or currentRound, or creates or deletes a Definition or a
\* Vote; also when the spectator was the first to join its game.
C13_SpectatorsChangeNothing ==
  [][\A t \in Slots :
       (/\ tasks[t].type \notin {"idle", "join"} /\ Steps(t)
        /\ tasks[t].player # NoPlayer /\ IsSpectator(tasks[t].player))
       => <<games, definitions, votes>>' = <<games, definitions, votes>>]_vars

\* C14: in every reachable state, whatever the interleaving of the join
\* handlers, each game has at most one Player with isAdmin true, and that Player
\* is the first Player created for the game.
C14_OneAdminTheFirst ==
  \A a \in players :
    a.isAdmin => \A b \in players : b.gameId = a.gameId => (a.id <= b.id /\ (b.isAdmin => b = a))

\* C20: whatever joins are handled, one after the other or at the same time
\* on two connections, there is at most one Player per (gameId, sessionId), and
\* a Player once created keeps its id, role, isAdmin and score.
C20_OnePlayerPerSession ==
  [][/\ \A a, b \in players' :
          (a.gameId = b.gameId /\ a.sessionId = b.sessionId) => a = b
     /\ players \subseteq players']_vars

\* C19: once the handler of a join {gameId G, sessionId s} for an existing
\* game G is past its player lookup and creation, a Player with gameId G and
\* sessionId s is stored, whether or not s has a Player in another game.
C19_JoinCreatesPlayer ==
  \A t \in Slots :
    (tasks[t].type = "join" /\ tasks[t].pc \notin {"join_game", "join_player", "join_existing"})
    => \E pl \in players :
         pl.gameId = tasks[t].p.gameId /\ pl.sessionId = tasks[t].p.sessionId

\* The Player of id pid in the store b as it was when a message was received.
PlayerBefore(b, pid) == First({pl \in b.players : pl.id = pid})

InRoom(gid, sid) == gid \in DOMAIN gameRooms /\ sid \in SeqToSet(gameRooms[gid])

\* C15: once an accepted removePlayer of player P asks for the game state to
\* broadcast, P's Player record is deleted, P's session id is neither in the
\* room of the game nor in the session-to-connection map, and P's connection
\* has been closed (after a final error notice); and the gameState it then
\* sends to the remaining connections has no P in its players list.
C15_RemovedAndEvicted ==
  \A t \in Slots :
    /\ At(t, "removePlayer", "gs_game") =>
         LET P == PlayerBefore(tasks[t].before, tasks[t].p.playerId)
         IN /\ getPlayer(P.id) = NoPlayer
            /\ ~InRoom(GameOf(t), P.sessionId)
            /\ connections[P.sessionId] = NoConn
            /\ \A c \in Conns : sessionId[c] = P.sessionId => readyState[c] = "closed"
    /\ At(t, "removePlayer", "bc_player") =>
         \A pl \in tasks[t].gs.players : pl.id # tasks[t].p.playerId

\* C16: when storage.removePlayer(P) of an accepted removePlayer has completed,
\* no Definition and no Vote of any round has playerId P, and the Definitions
\* and Votes of the other players, the other Player records and the Game
\* records are what they were when the message was received.
C16_RemoveCascade ==
  \A t \in Slots :
    At(t, "removePlayer", "rp_removed") =>
      LET b == tasks[t].before
          P == tasks[t].p.playerId
      IN /\ \A d \in definitions : d.playerId # P
         /\ \A v \in votes : v.playerId # P
         /\ definitions = {d \in b.definitions : d.playerId # P}
         /\ votes = {v \in b.votes : v.playerId # P}
         /\ players = {pl \in b.players : pl.id # P}
         /\ games = b.games

\* A removePlayer has completed in the store: the removed player had a
\* Definition and a Vote, and a Definition and a Vote of another player, of
\* another round, are still stored.
C16_Witness ==
  \E t \in Slots :
    /\ At(t, "removePlayer", "rp_removed")
    /\ LET b == tasks[t].before
           P == tasks[t].p.playerId
       IN /\ \E d \in b.definitions, e \in definitions : d.playerId = P /\ e.round # d.round
          /\ \E v \in b.votes, w \in votes : v.playerId = P /\ w.round # v.round

\* What the two loops of the scoring give the player pl, over the definitions D
\* and the votes V of the round: to the author of each non-correct definition
\* its vote count, and 2 for each vote for the correct definition to its voter.
ScoringPass(pl, D, V) ==
  LET correctDefinition == First({d \in D : d.isCorrect})
  IN IF ~Awardable(pl) THEN 0
     ELSE VotesOn({d \in D : ~d.isCorrect /\ d.playerId = pl.id}, V)
          + (IF correctDefinition = NoDefinition THEN 0
             ELSE CorrectVotePoints * Cardinality({v \in V : /\ v.definitionId = correctDefinition.id
                                                             /\ v.playerId = pl.id}))

\* The sender of the command in slot t is a player who may end the voting.
FromPlayer(t) == tasks[t].player # NoPlayer /\ ~IsSpectator(tasks[t].player)

\* In the store b, round r of game gid has a Vote for a Definition that is not
\* stored; a Definition, or a Vote, of a Player that is not stored.
DanglingVote(b, gid, r) ==
  \E v \in b.votes : /\ v.gameId = gid /\ v.round = r
                      /\ \A d \in b.definitions : d.id # v.definitionId
MissingAuthor(b, gid, r) ==
  \E d \in b.definitions : /\ d.gameId = gid /\ d.round = r
                            /\ PlayerBefore(b, d.playerId) = NoPlayer
MissingVoter(b, gid, r) ==
  \E v \in b.votes : /\ v.gameId = gid /\ v.round = r
                      /\ PlayerBefore(b, v.playerId) = NoPlayer

\* C17: an endVoting of a player, also for a round with a Vote for a missing
\* Definition, a Definition of a removed author or a Vote of a removed voter,
\* completes: no step of it sends an error, it returns only from its broadcast,
\* in which the admin is sent a gameState in phase Results; and when its scoring
\* pass has finished the phase is Results, no Player has appeared or
\* disappeared, and every stored Player has the score it had plus the awards
\* of the pass over the round's Definitions and Votes.
C17_EndVotingToleratesDangling ==
  [][\A t \in Slots :
       (tasks[t].type = "endVoting" /\ Steps(t) /\ FromPlayer(t)) =>
         /\ Errors(sent', tasks[t].conn) = {}
         /\ tasks'[t].type = "idle" => tasks[t].pc = "bc_player"
         /\ (tasks[t].pc = "bc_player" /\ tasks[t].bconn = tasks[t].conn) =>
              \E m \in GameStates(sent') :
                m.to = tasks[t].conn /\ m.payload.game.phase = PhaseResults
         /\ tasks'[t].pc = "gs_game" =>
              LET b == tasks[t].before
                  D == {d \in b.definitions : d.gameId = GameOf(t) /\ d.round = RoundOf(t)}
                  V == {v \in b.votes : v.gameId = GameOf(t) /\ v.round = RoundOf(t)}
              IN /\ getGame(GameOf(t)).phase = PhaseResults
                 /\ {pl.id : pl \in players'} = {pl.id : pl \in b.players}
                 /\ \A pl \in players' :
                      pl.score = PlayerBefore(b, pl.id).score
                                 + ScoringPass(PlayerBefore(b, pl.id), D, V)]_vars

\* An endVoting has finished its scoring pass over a round that had a Vote for
\* a Definition no longer stored and a Vote of a removed voter, and a stored
\* Player has been awarded points.
C17_Witness ==
  \E t \in Slots :
    /\ At(t, "endVoting", "gs_game")
    /\ LET b == tasks[t].before
       IN /\ DanglingVote(b, GameOf(t), RoundOf(t))
          /\ MissingVoter(b, GameOf(t), RoundOf(t))
          /\ \E pl \in players : pl.score > PlayerBefore(b, pl.id).score

\* The sessions of the room of game gid that broadcastGameState sends to: those
\* with an open connection in the registry and a Player.
Recipients(gid) ==
  {s \in Sessions : /\ InRoom(gid, s)
                    /\ connections[s] # NoConn /\ readyState[connections[s]] = "open"
                    /\ getPlayerBySessionId(s) # NoPlayer}

\* C18: when the broadcast of a command returns, the gameState messages it has
\* sent are: exactly one to the connection of every session of the room that
\* has an open connection and a Player; all with the same game, players,
\* definitions and votes; each with the recipient's own Player record as
\* currentPlayer, a Player of the game broadcast, and no two recipients with
\* the same one.
C18_Broadcast ==
  [][\A t \in Slots :
       (tasks[t].pc = "bc_player" /\ Steps(t) /\ tasks'[t].type = "idle") =>
         LET msgs == tasks[t].bsent \cup GameStates(sent')
             gid == GameOf(t)
         IN /\ \A s \in Recipients(gid) :
                 Cardinality({m \in msgs : m.to = connections[s]}) = 1
            /\ \A m, n \in msgs : m.payload = n.payload
            /\ \A m \in msgs : /\ m.currentPlayer \in players
                               /\ m.currentPlayer.sessionId = sessionId[m.to]
                               /\ m.currentPlayer.gameId = gid
            /\ \A m, n \in msgs : m.to # n.to => m.currentPlayer # n.currentPlayer]_vars

\* The Game, Player, Definition and Vote records of the store.
Records == [games |-> games, players |-> players, definitions |-> definitions, votes |-> votes]

\* C21: when the handler of a command returns with an error message to its
\* own connection, the Game, Player, Definition and Vote records are those of
\* the moment the command was received, and the handler has sent nothing to
\* any other connection.
C21_ErrorLeavesNoTrace ==
  [][\A t \in Slots :
       (/\ tasks[t].type # "idle" /\ Steps(t) /\ tasks'[t].type = "idle"
        /\ Errors(sent', tasks[t].conn) # {})
       => /\ tasks[t].type # "join" => Records' = tasks[t].before
          /\ tasks[t].type = "join" => Records' = Records
          /\ \A m \in sent' \cup tasks[t].bsent : m.to = tasks[t].conn]_vars

\* The word of the payload p is missing, not a string, empty or blanks only.
NoWord(p) == p.wordType # "string" \/ \A i \in 1..Len(p.word) : p.word[i] = " "

\* C22: a submitWord whose word is missing, not a string, empty or blanks only
\* returns at once with an error to the sender and leaves every game as it is;
\* when an accepted submitWord of a non-spectator has written the word and the
\* phase, currentWord is the trimmed word and the phase is Definition.
C22_SubmitWord ==
  [][\A t \in Slots :
       (tasks[t].type = "submitWord" /\ Steps(t)) =>
         /\ (tasks[t].pc = "player" /\ NoWord(tasks[t].p)) =>
              /\ tasks'[t] = Idle
              /\ Errors(sent', tasks[t].conn) # {}
              /\ games' = games
         /\ (tasks[t].pc = "player" /\ ~NoWord(tasks[t].p) /\ FromPlayer(t)) =>
              tasks'[t].pc = "word_read"
         /\ tasks'[t].pc = "phase_written" =>
              \E g \in games' : /\ g.id = GameOf(t)
                                 /\ g.currentWord = Trim(tasks[t].p.word)
                                 /\ g.currentWord # <<>>
                                 /\ g.currentWord[1] # " "
                                 /\ g.currentWord[Len(g.currentWord)] # " "
                                 /\ g.phase = PhaseDefinition]_vars

\* An accepted submitWord of a word between blanks has written the trimmed
\* word and the phase, in a game that was in another phase.
C22_Witness ==
  \E t \in Slots :
    /\ At(t, "submitWord", "phase_written")
    /\ tasks[t].p.word = <<" ", "a", " ">>
    /\ getGame(GameOf(t)).currentWord = <<"a">>
    /\ getGame(GameOf(t)).phase = PhaseDefinition
    /\ GameBefore(tasks[t].before, GameOf(t)).phase = PhaseVoting

\* C23: a submitDefinition whose text is missing, empty or blanks only stores
\* no Definition and returns with an error to the sender.
C23_BlankDefinitionRejected ==
  [][\A t \in Slots :
       (tasks[t].type = "submitDefinition" /\ Steps(t) /\ tasks[t].p.text \in {"", " "})
       => /\ definitions' = definitions
          /\ tasks'[t].type = "idle" => Errors(sent', tasks[t].conn) # {}]_vars

\* C30: whatever the submitDefinition messages carry, no stored Definition is
\* flagged correct: no round has a correct Definition authored by a player,
\* nor more than one correct Definition.
C30_SubmittedNeverCorrect ==
  /\ \A d \in definitions : ~d.isCorrect
  /\ \A a, b \in definitions :
       (a.isCorrect /\ b.isCorrect /\ a.gameId = b.gameId /\ a.round = b.round) => a = b

\* C24: the messages of one connection are handled one after the other: no
\* two handlers of one connection are in flight together, and so a command
\* received after a join on its connection finds the Player of the join (it
\* is never answered "Player not found").
C24_OneHandlerPerConnection ==
  /\ \A t, u \in InFlight : t # u => tasks[t].conn # tasks[u].conn
  /\ \A m \in sent : m.type = "error" => m.message # ErrPlayerNotFound

\* The handler in slot t is at the write of an updatePlayerScore whose player
\* is stored.
ScoreWrite(t) ==
  /\ tasks[t].pc \in {"ab_score", "ev_author_score", "ev_voter_score"}
  /\ Steps(t)
  /\ tasks[t].target # NoPlayer
  /\ getPlayer(tasks[t].target.id) # NoPlayer

\* C25: every award is kept and no score decreases: each updatePlayerScore,
\* also one interleaved with another, leaves the player's score at the stored
\* score plus the award, so that a score is the sum of the awards; and no step
\* lowers the score of a Player that stays.
C25_AwardsKept ==
  [][/\ \A t \in Slots :
          ScoreWrite(t) =>
            \E pl \in players' :
              /\ pl.id = tasks[t].target.id
              /\ pl.score = getPlayer(pl.id).score + tasks[t].inc
     /\ \A pl \in players, ql \in players' :
          pl.id = ql.id => ql.score >= pl.score]_vars

\* The connection c has closed, having joined at least once.
Closed(c) == readyState[c] = "closed" /\ sessionId[c] # ""

\* C26: once a connection has closed, its session id is in no room and not in
\* the connections map, and no room is left empty, whatever it joined before.
C26_ClosedLeavesNothing ==
  \A c \in Conns :
    Closed(c) =>
      /\ connections[sessionId[c]] = NoConn
      /\ \A gid \in DOMAIN gameRooms :
           /\ sessionId[c] \notin SeqToSet(gameRooms[gid])
           /\ gameRooms[gid] # <<>>

\* A command other than join arrives and no handler takes it up.
Dropped == last'.at = "recv" /\ last'.type # "join" /\ InFlight' = InFlight

\* The handler in slot t, of a command other than join, learns that its
\* connection's session has no Player.
Unresolved(t) ==
  /\ tasks[t].type \notin {"idle", "join"}
  /\ tasks[t].pc = "player"
  /\ tasks[t].player = NoPlayer
  /\ Steps(t)

\* C27: a command other than join whose acting Player cannot be resolved (the
\* connection never joined, or its session has no Player) is answered with an
\* error and changes no record; none is dropped without a reply.
C27_UnresolvedAnswered ==
  [][/\ Dropped => Errors(sent', last'.conn) # {}
     /\ \A t \in Slots :
          Unresolved(t) => Errors(sent', tasks[t].conn) # {} /\ Records' = Records]_vars

\* The handler in slot t, an awardBonus of an admin that names a Player stored
\* when the message was received, takes a step.
BonusStep(t) ==
  /\ tasks[t].type = "awardBonus" /\ Steps(t)
  /\ tasks[t].player # NoPlayer /\ tasks[t].player.isAdmin
  /\ tasks[t].p.playerId \in {pl.id : pl \in players}

\* The players of b with the score of pl raised by the bonus.
Awarded(b, pl) ==
  (b.players \ {pl}) \cup {[pl EXCEPT !.score = pl.score + BonusPoints]}

\* C28: an admin's awardBonus that names a stored non-spectator goes on, in
\* any phase, to its one write, which leaves that player's score 3 higher than
\* when the message was received and every other score, Game, Definition and
\* Vote as it was; one that names a spectator is answered with an error and
\* changes nothing.
C28_AwardBonus ==
  [][\A t \in Slots :
       BonusStep(t) =>
         LET b == tasks[t].before
             pl == getPlayer(tasks[t].p.playerId)
         IN /\ IF tasks[t].pc = "ab_score"
               THEN Records' = [b EXCEPT !.players = Awarded(b, PlayerBefore(b, pl.id))]
               ELSE Records' = Records
            /\ tasks[t].pc = "ab_target" =>
                 IF pl.isSpectator
                 THEN /\ tasks'[t].type = "idle" /\ Records' = b
                      /\ \E m \in Errors(sent', tasks[t].conn) :
                           m.message = ErrSpectatorBonus
                 ELSE tasks'[t].pc = "ab_score"]_vars

\* The admin's bonus for player 2 has been awarded in the Voting phase, over a
\* stored definition and vote.
C28_Witness ==
  /\ last.type = "awardBonus" /\ InFlight = {}
  /\ getGame(1).phase = PhaseVoting
  /\ \E pl \in players : pl.id = 2 /\ pl.score = BonusPoints
  /\ definitions # {} /\ votes # {}

\* The handler in slot t, an admin's command of the given type that names a
\* playerId no Player has or has had, takes a step.
NamesNobody(t, type) ==
  /\ tasks[t].type = type /\ Steps(t)
  /\ tasks[t].player # NoPlayer /\ tasks[t].player.isAdmin
  /\ tasks[t].p.playerId >= playerIdCounter

\* No step of the handler in slot t changes a record or sends a gameState, and
\* the handler returns with an error to its connection.
Refused(t) ==
  /\ Records' = Records
  /\ GameStates(sent') = {}
  /\ tasks'[t].type = "idle" => Errors(sent', tasks[t].conn) # {}

\* C29: an awardBonus or a removePlayer that names a playerId no Player has
\* fails: an error goes to the originator, no record changes and no gameState
\* is broadcast.
C29_NobodyNamed ==
  [][\A t \in Slots :
       (NamesNobody(t, "awardBonus") \/ NamesNobody(t, "removePlayer"))
         => Refused(t)]_vars

\* The sessions of the room of game gid whose connection in the registry is open.
OpenInRoom(gid) ==
  {s \in Sessions : /\ InRoom(gid, s)
                    /\ connections[s] # NoConn /\ readyState[connections[s]] = "open"}

\* C31: a join that succeeds first sends its connection a gameState with its
\* own Player as currentPlayer, before any message of the broadcast; the
\* broadcast then reaches the connection of every session of the room that has
\* an open one, the joiner's included; and the players list of the direct
\* message and of every broadcast message contains the joining Player.
C31_JoinSendsThenBroadcasts ==
  [][\A t \in Slots :
       (tasks[t].type = "join" /\ Steps(t)) =>
         LET r == tasks[t]
             broadcast == r.bsent \cup (IF r.pc = "bc_player" THEN sent' ELSE {})
         IN /\ r.pc = "gs_votes" =>
                 /\ r.bsent = {}
                 /\ \E m \in GameStates(sent') :
                      /\ m.to = r.conn /\ m.currentPlayer = r.player
                      /\ r.player \in m.payload.players
            /\ r.pc = "bc_player" =>
                 \A m \in GameStates(sent') : r.player \in m.payload.players
            /\ (r.pc \in {"gs_votes", "bc_player"} /\ tasks'[t].type = "idle") =>
                 \A s \in OpenInRoom(gameId[r.conn]) :
                   \E m \in broadcast : m.to = connections[s]]_vars

\* The Players stored by this step.
Created == {pl \in players' : pl.id \notin {ql.id : ql \in players}}

\* C32: no step, of a command or of a close, changes the isAdmin flag of a
\* stored Player, and the Player a join stores is admin exactly when its game
\* has no Player at that moment.
C32_AdminNeverMoves ==
  [][/\ \A pl \in players, ql \in players' : pl.id = ql.id => ql.isAdmin = pl.isAdmin
     /\ \A pl \in Created : pl.isAdmin <=> \A ql \in players : ql.gameId # pl.gameId]_vars

\* The admin of game 1 has closed its connection and is still the admin, and
\* a session that joined the game afterwards is no admin.
C32_Witness ==
  /\ InFlight = {}
  /\ \E pl, ql \in players :
       /\ pl.gameId = 1 /\ pl.isAdmin /\ connections[pl.sessionId] = NoConn
       /\ \E c \in Conns : sessionId[c] = pl.sessionId /\ readyState[c] = "closed"
       /\ ql.gameId = 1 /\ ~ql.isAdmin /\ ql.id > pl.id
       /\ connections[ql.sessionId] # NoConn

\* C33: the gameState a join with no round in its payload sends to its own
\* connection holds exactly the Definitions and the Votes stored for the
\* game's current round, the currentRound of the game in the same message.
C33_JoinSendsCurrentRound ==
  [][\A t \in Slots :
       (tasks[t].type = "join" /\ tasks[t].pc = "gs_votes" /\ Steps(t)
        /\ tasks[t].p.round = 0) =>
         \A m \in GameStates(sent') :
           LET gs == m.payload
           IN /\ gs.definitions = getDefinitionsByGameId(gs.game.id, gs.game.currentRound)
              /\ gs.votes = getVotesByGameId(gs.game.id, gs.game.currentRound)]_vars

\* C34: no state is terminal: whatever has happened in game 1, commands of
\* its player 2 take the game to each of the phases Definition, Voting and
\* Results again, and from every round below the last round modelled to the
\* WordEntry phase of a later round.
C34_NoTerminalState ==
  /\ \A k \in {PhaseDefinition, PhaseVoting, PhaseResults} : []<>(getGame(1).phase = k)
  /\ \A r \in 1..(MaxRound - 1) :
       (getGame(1).currentRound = r)
         ~> (getGame(1).currentRound > r /\ getGame(1).phase = PhaseWordEntry)

\* Player 2 has taken game 1 to the Results phase of a round after the first.
C34_Witness ==
  /\ getGame(1).currentRound > DefaultRound
  /\ getGame(1).phase = PhaseResults
  /\ last.type = "endVoting" /\ last.conn = 2 /\ InFlight = {}

\* The registry maps session s to connection d, on which s joined a game last.
Registered(s, d) ==
  /\ connections[s] = d /\ d # NoConn
  /\ sessionId[d] = s /\ gameId[d] # 0

\* C35: while the connection on which a session joined last stays open, the
\* registry keeps mapping the session to it and the room of the game it joined
\* keeps the session: no step but a further join of the session changes that,
\* also not the close of an older connection of the session.
C35_OpenStaysRegistered ==
  [][\A s \in Sessions, d \in Conns :
       (/\ Registered(s, d) /\ InRoom(gameId[d], s)
        /\ readyState'[d] = "open"
        /\ ~(last'.type = "join" /\ last'.at = "recv"))
       => /\ connections'[s] = d
          /\ gameId[d] \in DOMAIN gameRooms'
          /\ s \in SeqToSet(gameRooms'[gameId[d]])]_vars

\* C36: an admin command goes on past its check of the sender only when the
\* sender's Player is a Player of the game the command acts on, the game of the
\* connection, and is an admin.
C36_AdminOfTheGame ==
  [][\A t \in Slots :
       (/\ tasks[t].type \in AdminCommands /\ tasks[t].pc = "player"
        /\ Steps(t) /\ tasks'[t].type # "idle")
       => /\ tasks[t].player # NoPlayer
          /\ tasks[t].player.isAdmin
          /\ tasks[t].player.gameId = GameOf(t)]_vars

\* The Players of the games other than gid, with their Definitions and Votes.
Elsewhere(gid) ==
  LET P == {pl \in players : pl.gameId # gid}
  IN [players |-> P,
      definitions |-> {d \in definitions : d.playerId \in {pl.id : pl \in P}},
      votes |-> {v \in votes : v.playerId \in {pl.id : pl \in P}}]

\* C37: no step of a removePlayer or an awardBonus changes or deletes a Player
\* of a game other than the game of its connection, or a Definition or a Vote
\* of such a Player.
C37_OnlyTheGamesPlayers ==
  [][\A t \in Slots :
       (tasks[t].type \in {"removePlayer", "awardBonus"} /\ Steps(t)) =>
         /\ Elsewhere(GameOf(t)).players \subseteq players'
         /\ Elsewhere(GameOf(t)).definitions \subseteq definitions'
         /\ Elsewhere(GameOf(t)).votes \subseteq votes']_vars

\* The records of S' that this step stores are stored in the given phase of
\* the game of the handler in slot t, for its current round.
StoredInPhase(t, S, phase) ==
  \A x \in S' \ S :
    /\ getGame(GameOf(t)).phase = phase
    /\ x.round = getGame(GameOf(t)).currentRound

\* C38: a submitDefinition stores its Definition in the Definition phase only
\* and a submitVote its Vote in the Voting phase only, each with the game's
\* current round; so no Definition or Vote of a later round is stored.
C38_StoredInPhaseAndRound ==
  [][/\ \A t \in Slots :
          /\ tasks[t].type = "submitDefinition" =>
               StoredInPhase(t, definitions, PhaseDefinition)
          /\ tasks[t].type = "submitVote" => StoredInPhase(t, votes, PhaseVoting)
     /\ \A x \in definitions' \cup votes' :
          getGame(x.gameId)' # NoGame => x.round <= getGame(x.gameId)'.currentRound]_vars

\* C39: a game in the Definition, Voting or Results phase has a word: its
\* currentWord is empty in the WordEntry phase only.
C39_WordAfterWordEntry ==
  \A g \in games : g.phase # PhaseWordEntry => g.currentWord # <<>>

\* C40: a deleted Player stays deleted: a step stores a Player under an id no
\* stored Player has only when the id is new (ids are given out in increasing
\* order and never again), also when a score update for the Player was in
\* flight while removePlayer deleted it.
C40_RemovedStaysRemoved ==
  [][\A pl \in players' :
       pl.id \notin {ql.id : ql \in players} => pl.id >= playerIdCounter]_vars

====
